---------------------------- MODULE Spec2Model ----------------------------
(***************************************************************************)
(* Model of the cell_spinner motor controller: the serial transport        *)
(* (handshake, telemetry listener, command writers), the per-motor run     *)
(* lifecycle (start / stop / disconnect), the tab registry with the shared *)
(* list of already connected ports, and the background generation of the   *)
(* motion-profile graph points.                                            *)
(*                                                                         *)
(* Field names follow src/src/utils/structs.rs (TimersAndPhases): `phase`  *)
(* is the sub-phase, `global_phase` the main phase, `start_time` the       *)
(* global start and `stop_time_ms` the recorded stop time.                 *)
(***************************************************************************)
EXTENDS Integers, Sequences, FiniteSets, TLC

(***************************************************************************)
(* Bounds of the model.                                                    *)
(***************************************************************************)
MaxTime == 1
MaxListeners == 2
MaxPending == 1
MaxRxCodes == 1
MaxTabs == 2
MaxGen == 2
MaxConnected == 2
\* The codes a port buffers while its handshake runs.
MaxReplies == 2
\* The ceiling of a point buffer: 250_000 in the program, taken small here
\* so that a simulated step sequence reaches it.
MAX_POINTS_GRAPHS == 1
\* The longest duration of a protocol field: one year of milliseconds in the
\* program, taken small here; the durations of the model are in its unit.
MAX_DURATION_MS == 2

(***************************************************************************)
(* Program constants.                                                      *)
(***************************************************************************)
HANDSHAKE_RETRIES == 10
MAX_ACCELERATION == 20000
MAX_RPM == 5000

\* Option::None for an Instant or a u64; Some(n) is the natural number n.
None == -1

TabIds == 1 .. MaxTabs
\* serialport::available_ports(), in the order the system lists them.
SystemPorts == <<"COM1", "COM2">>
Ports == {SystemPorts[i] : i \in 1 .. Len(SystemPorts)}
NoPort == ""
\* Nothing written to the device yet.
NoWrite == ""

Range(s) == {s[i] : i \in 1 .. Len(s)}
SelectSeqNe(s, x) == SelectSeq(s, LAMBDA y : y # x)
RemoveAt(s, i) == SubSeq(s, 1, i - 1) \o SubSeq(s, i + 1, Len(s))

(***************************************************************************)
(* StepperState and the decoding of a 3-byte telemetry code.               *)
(***************************************************************************)
FaultStates == {"EmergencyStop", "OpenLoad", "OverCurrent", "OverHeat",
                "StepgenRotationError", "StepgenAgitationError"}

StepperState == {"CommandReceived", "Finished", "OscillationRotation",
                 "OscillationAgitation", "StartRotation", "StartPauseRotation",
                 "StartPausePreAgitation", "StartAgitation", "StartPauseAgitation",
                 "StartPausePostAgitation", "Invalid"} \cup FaultStates

StepperStateDefault == "Finished"

StepperStateFromSwappedFaults(bytes) ==
    CASE bytes = <<"o", "k", "!">> -> "CommandReceived"
      [] bytes = <<"f", "i", "n">> -> "Finished"
      [] bytes = <<"e", "m", "r">> -> "EmergencyStop"
      [] bytes = <<"e", "r", "1">> -> "OpenLoad"
      [] bytes = <<"e", "r", "2">> -> "OverHeat"
      [] bytes = <<"e", "r", "3">> -> "OverCurrent"
      [] bytes = <<"o", "s", "r">> -> "OscillationRotation"
      [] bytes = <<"o", "s", "a">> -> "OscillationAgitation"
      [] bytes = <<"s", "t", "r">> -> "StartRotation"
      [] bytes = <<"s", "t", "p">> -> "StartPauseRotation"
      [] bytes = <<"s", "t", "q">> -> "StartPausePreAgitation"
      [] bytes = <<"s", "t", "a">> -> "StartAgitation"
      [] bytes = <<"s", "t", "b">> -> "StartPauseAgitation"
      [] bytes = <<"s", "t", "c">> -> "StartPausePostAgitation"
      [] bytes = <<"e", "r", "p">> -> "StepgenRotationError"
      [] bytes = <<"e", "a", "p">> -> "StepgenAgitationError"
      [] OTHER -> "Invalid"

\* impl From<&[u8; 3]> for StepperState.
StepperStateFrom(bytes) ==
    CASE bytes = <<"o", "k", "!">> -> "CommandReceived"
      [] bytes = <<"f", "i", "n">> -> "Finished"
      [] bytes = <<"e", "m", "r">> -> "EmergencyStop"
      [] bytes = <<"e", "r", "1">> -> "OpenLoad"
      [] bytes = <<"e", "r", "2">> -> "OverCurrent"
      [] bytes = <<"e", "r", "3">> -> "OverHeat"
      [] bytes = <<"o", "s", "r">> -> "OscillationRotation"
      [] bytes = <<"o", "s", "a">> -> "OscillationAgitation"
      [] bytes = <<"s", "t", "r">> -> "StartRotation"
      [] bytes = <<"s", "t", "p">> -> "StartPauseRotation"
      [] bytes = <<"s", "t", "q">> -> "StartPausePreAgitation"
      [] bytes = <<"s", "t", "a">> -> "StartAgitation"
      [] bytes = <<"s", "t", "b">> -> "StartPauseAgitation"
      [] bytes = <<"s", "t", "c">> -> "StartPausePostAgitation"
      [] bytes = <<"e", "r", "p">> -> "StepgenRotationError"
      [] bytes = <<"e", "a", "p">> -> "StepgenAgitationError"
      [] OTHER -> "Invalid"

\* Display for StepperState: the text of the user message.
StepperStateToString(s) ==
    CASE s = "CommandReceived" -> "Command received"
      [] s = "Finished" -> "Idle"
      [] s = "EmergencyStop" -> "Emergency stop"
      [] s = "OpenLoad" -> "Open load"
      [] s = "OverCurrent" -> "Over current"
      [] s = "OverHeat" -> "Over heat"
      [] s = "OscillationRotation" -> "Cycle"
      [] s = "OscillationAgitation" -> "Cycle"
      [] s = "StartRotation" -> "Rotation"
      [] s = "StartPauseRotation" -> "Pause rotation"
      [] s = "StartPausePreAgitation" -> "Pause pre agitation"
      [] s = "StartAgitation" -> "Agitation"
      [] s = "StartPauseAgitation" -> "Pause agitation"
      [] s = "StartPausePostAgitation" -> "Pause post agitation"
      [] s = "StepgenRotationError" -> "Error generating rotation steps"
      [] s = "StepgenAgitationError" -> "Error generating agitation steps"
      [] OTHER -> "Invalid"

\* The 3-byte codes the device sends while a protocol runs, and one
\* sequence that is no code.
TelemetryCodes ==
    {<<"o", "k", "!">>, <<"f", "i", "n">>, <<"e", "m", "r">>, <<"e", "r", "1">>,
     <<"e", "r", "2">>, <<"e", "r", "3">>, <<"o", "s", "r">>, <<"o", "s", "a">>,
     <<"s", "t", "r">>, <<"s", "t", "p">>, <<"s", "t", "q">>, <<"s", "t", "a">>,
     <<"s", "t", "b">>, <<"s", "t", "c">>, <<"e", "r", "p">>, <<"e", "a", "p">>}
GarbageCode == <<"x", "y", "z">>

(***************************************************************************)
(* Messages on the event channel.                                          *)
(***************************************************************************)
MotorName(t) == <<"Motor", t>>
NoOrigin == <<>>
\* Message.error: None, or the text of the error detail.
NoError == "None"
Message(kind, text, error, origin) ==
    [kind |-> kind, message |-> text, error |-> error, origin |-> origin]

(***************************************************************************)
(* Protocol: the fields the run lifecycle reads.                           *)
(***************************************************************************)
StepMode128 == {"Full", "M2", "M4", "M8", "M16", "M32", "M64", "M128"}

get_multiplier(step_mode) ==
    CASE step_mode = "Full" -> 1
      [] step_mode = "M2" -> 2
      [] step_mode = "M4" -> 4
      [] step_mode = "M8" -> 8
      [] step_mode = "M16" -> 16
      [] step_mode = "M32" -> 32
      [] step_mode = "M64" -> 64
      [] step_mode = "M128" -> 128

RotationNew(rpm, accel, step_mode, cycle, pause, direction) ==
    [rpm |-> rpm, acceleration |-> accel, step_mode |-> step_mode,
     duration_of_one_direction_cycle_ms |-> cycle,
     steps_for_one_direction_cycle |-> 0,
     pause_before_direction_change_ms |-> pause,
     direction |-> direction]

\* An axis with the rpm, acceleration and step mode of Rotation::default().
Rotation(cycle, pause, direction) == RotationNew(1, 1, "Full", cycle, pause, direction)

max_rpm_ignores_step_mode(r) == MAX_RPM

\* The maximum rpm of an axis for its step mode.
max_rpm(r) ==
    CASE r.step_mode = "Full" -> MAX_RPM
      [] r.step_mode = "M2" -> MAX_RPM \div 2
      [] r.step_mode = "M4" -> MAX_RPM \div 4
      [] r.step_mode = "M8" -> MAX_RPM \div 8
      [] r.step_mode = "M16" -> MAX_RPM \div 16
      [] r.step_mode = "M32" -> MAX_RPM \div 32
      [] r.step_mode = "M64" -> MAX_RPM \div 64
      [] r.step_mode = "M128" -> MAX_RPM \div 128

NewProtocol(rot, rot_ms, pre_ms, agi, agi_ms, post_ms, global_ms) ==
    [rotation |-> rot, rotation_duration_ms |-> rot_ms, pause_pre_agitation_ms |-> pre_ms,
     agitation |-> agi, agitation_duration_ms |-> agi_ms, pause_post_agitation_ms |-> post_ms,
     global_duration_ms |-> global_ms]

ProtocolDefault ==
    NewProtocol(Rotation(0, 0, "Forward"), 0, 0, Rotation(0, 0, "Forward"), 0, 0, 0)

get_min_duration(r) ==
    r.duration_of_one_direction_cycle_ms + r.pause_before_direction_change_ms

get_duration_without_pause(p) == p.rotation_duration_ms + p.agitation_duration_ms

\* A protocol with a rotation and an agitation to run.
RunnableProtocol ==
    NewProtocol(Rotation(1, 0, "Forward"), 1, 1, Rotation(1, 0, "Backward"), 1, 1, 1)

\* The protocols the user interface can have stored in a motor.
ProtocolInputs ==
    {ProtocolDefault,
     RunnableProtocol,
     NewProtocol(Rotation(0, 1, "Backward"), 1, 1, Rotation(0, 0, "Forward"), 1, 1, 1),
     NewProtocol(Rotation(0, 0, "Forward"), 1, 1, Rotation(0, 0, "Forward"), 1, 1, 1),
     NewProtocol(Rotation(1, 0, "Forward"), 0, 1, Rotation(1, 0, "Forward"), 0, 1, 1),
     NewProtocol(Rotation(1, 0, "Forward"), 0, 1, Rotation(1, 0, "Backward"), 1, 1, 1)}

(***************************************************************************)
(* State.                                                                  *)
(***************************************************************************)
VARIABLES
    added_tabs,               \* Tabs.added_tabs: the tabs the user interface shows
    absolute_tab_counter,     \* the id of the last tab added
    motor_keys,               \* keys of the DashMap `motor`
    is_running,               \* Motor.is_running, per tab
    protocol,                 \* Motor.protocol, per tab
    serial,                   \* Motor.serial: port_name and whether the port handle is present
    timers_and_phases,        \* Motor.timers_and_phases, per tab
    listeners,                \* live listener threads of the tab's current Motor
    pending,                  \* buffers handed to send_bytes whose writer thread has not run yet
    selected_port,            \* Tabs.selected_port, per tab
    available_ports,          \* Tabs.available_ports
    promise_serial_connect,   \* "absent", "None" or "Some", per tab
    already_connected_ports,  \* the shared Vec<String>
    conn,                     \* the connection thread of a tab: its position and locals
    rx,                       \* receive buffer of each port, as bytes
    wire,                     \* the last write each device received
    now,                      \* the clock
    message_tx,               \* the messages the last step sent on the event channel
    last_op,                  \* the last step, when it is a dispatch of the listener
    points,                   \* Graph.*_points, per axis: the point buffer
    thread_index,             \* Graph.*_thread_index, per axis: the generation counter
    tasks,                    \* the background tasks of generate_graph_*, per axis
    codec,                    \* the last call of a conversion: its input and its result
    listener_threads          \* the position and the locals of each live listener thread, per tab

motor_vars == <<is_running, protocol, serial, timers_and_phases, listeners, pending>>
registry_vars == <<added_tabs, absolute_tab_counter, motor_keys, selected_port,
                   available_ports, promise_serial_connect, already_connected_ports, conn>>
port_vars == <<rx, wire>>
graph_vars == <<points, thread_index, tasks>>
vars == <<motor_vars, registry_vars, port_vars, now, message_tx, last_op, graph_vars, codec, listener_threads>>

\* A listener thread that has just been spawned: at the test of its loop.
ThreadStart == [pc |-> "test", state |-> "Invalid", k |-> 0]

\* No conversion called yet.
CodecIdle == [op |-> "none", input |-> <<>>, output |-> <<>>]

\* last_op records the dispatches of the listener (the tab and the decoded
\* state), the imports (the tab and the protocol read from the file) and the
\* panics of a thread (the tab and the call that panicked); any other step
\* leaves NoOp.
NoOp == [op |-> "other", tab |-> 0, arg |-> ""]
Op(op, tab, arg) ==
    IF op \in {"dispatch", "import", "panic"} THEN [op |-> op, tab |-> tab, arg |-> arg] ELSE NoOp

(***************************************************************************)
(* TimersAndPhases.                                                        *)
(***************************************************************************)
TimersAndPhasesDefault ==
    [start_time |-> None, stop_time_ms |-> None,
     phase |-> StepperStateDefault, phase_start_time |-> None,
     global_phase |-> StepperStateDefault, global_phase_start_time |-> None,
     rotation_direction |-> "Forward", agitation_direction |-> "Forward"]

get_elapsed_time_since_motor_start_as_millis(tp, instant) ==
    IF tp.start_time = None THEN 0 ELSE instant - tp.start_time

set_stop_time_motor_stopped(tp, instant) ==
    [tp EXCEPT !.stop_time_ms = get_elapsed_time_since_motor_start_as_millis(tp, instant)]

SerialDefault == [port_name |-> NoPort, port |-> FALSE]

\* The ports on which some handle is open: those of the motors in the map
\* and those of the connection threads that have opened theirs.
ConnHolds(c) == c.pc \in {"write_bye", "clear", "write_hi", "read", "push", "insert"}
PortsHeld ==
    {serial[t].port_name : t \in {u \in motor_keys : serial[u].port}}
    \cup {conn[t].port : t \in {u \in TabIds : ConnHolds(conn[u])}}

(***************************************************************************)
(* Serial::send_bytes and its writer thread.                               *)
(***************************************************************************)
StopCommand == [cmd |-> "stop", protocol |-> ProtocolDefault]
ProtocolCommand(p) == [cmd |-> "protocol", protocol |-> p]

SendNothing(pend, bytes) == pend

send_bytes(pend, bytes) == Append(pend, bytes)

\* The spawned thread: with the port present, clear both buffers and write.
WriterThread(t, i) ==
    /\ i \in 1 .. Len(pending[t])
    /\ pending' = [pending EXCEPT ![t] = RemoveAt(@, i)]
    /\ IF serial[t].port
          THEN /\ rx' = [rx EXCEPT ![serial[t].port_name] = <<>>]
               /\ wire' = [wire EXCEPT ![serial[t].port_name] = pending[t][i].cmd]
          ELSE UNCHANGED port_vars
    /\ message_tx' = <<>>
    /\ last_op' = Op("write", t, pending[t][i].cmd)
    /\ UNCHANGED <<is_running, protocol, serial, timers_and_phases, listeners,
                   registry_vars, now, graph_vars, codec, listener_threads>>

(***************************************************************************)
(* Motor::start_motor and Motor::stop_motor.                               *)
(***************************************************************************)
NormalizeDurationsOnly(p) ==
    LET p1 == IF get_min_duration(p.rotation) = 0
                 THEN [p EXCEPT !.rotation_duration_ms = 0] ELSE p
    IN  IF get_min_duration(p1.agitation) = 0
           THEN [p1 EXCEPT !.agitation_duration_ms = 0] ELSE p1

\* The four fixups at the head of start_motor.
Normalize(p) ==
    LET p1 == IF get_min_duration(p.rotation) = 0
                 THEN [p EXCEPT !.rotation_duration_ms = 0] ELSE p
        p2 == IF get_min_duration(p1.agitation) = 0
                 THEN [p1 EXCEPT !.agitation_duration_ms = 0] ELSE p1
        p3 == IF p2.rotation_duration_ms = 0
                 THEN [p2 EXCEPT !.pause_pre_agitation_ms = 0] ELSE p2
        p4 == IF p3.agitation_duration_ms = 0
                 THEN [p3 EXCEPT !.pause_post_agitation_ms = 0] ELSE p3
    IN  p4

ZeroDurationMessage(t) ==
    Message("Error", "The duration of the protocol is 0. Please check the durations.",
            "0 duration", MotorName(t))

StartRejectedNever(p) == FALSE

\* The early return of start_motor.
StartRejected(p) == get_duration_without_pause(p) = 0

start_motor(t) ==
    LET p == Normalize(protocol[t]) IN
    IF StartRejected(p)
       THEN /\ protocol' = [protocol EXCEPT ![t] = [p EXCEPT !.global_duration_ms = 0]]
            /\ message_tx' = <<ZeroDurationMessage(t)>>
            /\ last_op' = Op("start_rejected", t, "")
            /\ UNCHANGED <<is_running, serial, timers_and_phases, listeners, pending>>
       ELSE /\ protocol' = [protocol EXCEPT ![t] = p]
            /\ is_running' = [is_running EXCEPT ![t] = TRUE]
            /\ timers_and_phases' = [timers_and_phases EXCEPT ![t] =
                   [@ EXCEPT !.start_time = now,
                             !.stop_time_ms = None,
                             !.rotation_direction = p.rotation.direction,
                             !.agitation_direction = p.agitation.direction]]
            /\ listeners' = [listeners EXCEPT ![t] = @ + 1]
            /\ pending' = [pending EXCEPT ![t] = send_bytes(@, ProtocolCommand(p))]
            /\ message_tx' = <<>>
            /\ last_op' = Op("start", t, "")
            /\ UNCHANGED serial

StoppedTimersKeepPhases(tp, instant) ==
    [set_stop_time_motor_stopped(tp, instant) EXCEPT
        !.phase_start_time = None,
        !.global_phase_start_time = None]

\* The five writes of stop_motor to the timers and phases.
StoppedTimers(tp, instant) ==
    [set_stop_time_motor_stopped(tp, instant) EXCEPT
        !.phase_start_time = None,
        !.global_phase_start_time = None,
        !.phase = StepperStateDefault,
        !.global_phase = StepperStateDefault]

StoppedMessage(t) == Message("Info", <<MotorName(t), "has been stopped.">>, NoError, NoOrigin)

\* The button "Run" of a tab.
ClickRun(t) ==
    /\ t \in added_tabs
    /\ serial[t].port /\ ~is_running[t]
    /\ listeners[t] < MaxListeners
    /\ Len(pending[t]) < MaxPending
    /\ start_motor(t)
    /\ UNCHANGED <<registry_vars, port_vars, now, graph_vars, codec, listener_threads>>

\* The button "STOP MOTOR" of a tab.
ClickStop(t) ==
    /\ t \in added_tabs
    /\ serial[t].port /\ is_running[t]
    /\ Len(pending[t]) < MaxPending
    /\ is_running' = [is_running EXCEPT ![t] = FALSE]
    /\ pending' = [pending EXCEPT ![t] = send_bytes(@, StopCommand)]
    /\ timers_and_phases' = [timers_and_phases EXCEPT ![t] = StoppedTimers(@, now)]
    /\ message_tx' = <<StoppedMessage(t)>>
    /\ last_op' = Op("stop", t, "")
    /\ UNCHANGED <<protocol, serial, listeners, registry_vars, port_vars, now, graph_vars, codec, listener_threads>>

(***************************************************************************)
(* Serial::listen_to_serial_port: one iteration of the listener's loop.    *)
(***************************************************************************)
ReadErrorMessage(origin) ==
    Message("Error", "Error while reading serial port", "io error", origin)

IsStopOrInvalid(state) == state \in FaultStates \cup {"Finished", "Invalid"}

\* The arms that stop the motor.
IsStop(state) == state \in FaultStates \cup {"Finished"}

SubPhaseStates == {"OscillationRotation", "OscillationAgitation", "StartPauseRotation",
                   "StartPausePreAgitation", "StartPauseAgitation",
                   "StartPausePostAgitation"}
MainPhaseStates == {"StartRotation", "StartAgitation"}

DispatchKeepsMainPhase(tp, state, instant) ==
    CASE IsStop(state) ->
            [set_stop_time_motor_stopped(tp, instant) EXCEPT
                !.phase = state, !.phase_start_time = None]
      [] state \in SubPhaseStates ->
            [tp EXCEPT !.phase = state, !.phase_start_time = instant]
      [] state \in MainPhaseStates ->
            [tp EXCEPT !.global_phase = state, !.global_phase_start_time = instant]
      [] OTHER -> tp

DispatchPauseRestartsMain(tp, state, instant) ==
    CASE IsStop(state) ->
            [set_stop_time_motor_stopped(tp, instant) EXCEPT
                !.phase = state, !.phase_start_time = None,
                !.global_phase = state, !.global_phase_start_time = None]
      [] state \in SubPhaseStates ->
            [tp EXCEPT !.phase = state, !.phase_start_time = instant,
                       !.global_phase_start_time = instant]
      [] state \in MainPhaseStates ->
            [tp EXCEPT !.global_phase = state, !.global_phase_start_time = instant]
      [] OTHER -> tp

\* The arms of `match state`: the new TimersAndPhases.
Dispatch(tp, state, instant) ==
    CASE IsStop(state) ->
            [set_stop_time_motor_stopped(tp, instant) EXCEPT
                !.phase = state, !.phase_start_time = None,
                !.global_phase = state, !.global_phase_start_time = None]
      [] state \in SubPhaseStates ->
            [tp EXCEPT !.phase = state, !.phase_start_time = instant]
      [] state \in MainPhaseStates ->
            [tp EXCEPT !.global_phase = state, !.global_phase_start_time = instant]
      [] OTHER -> tp

DispatchErrorMessages(state, t) ==
    IF state \in FaultStates
       THEN <<Message("Error", StepperStateToString(state), "Received", MotorName(t))>>
       ELSE <<>>

DispatchMessagesWithoutDetail(state, t) ==
    CASE state = "Finished" ->
            <<Message("Success", StepperStateToString(state), NoError, MotorName(t))>>
      [] state \in FaultStates ->
            <<Message("Error", StepperStateToString(state), NoError, MotorName(t))>>
      [] OTHER -> <<>>

\* The message an arm sends: success for Finished, an error for a fault.
DispatchMessages(state, t) ==
    CASE state = "Finished" ->
            <<Message("Success", StepperStateToString(state), NoError, MotorName(t))>>
      [] state \in FaultStates ->
            <<Message("Error", StepperStateToString(state), "Received", MotorName(t))>>
      [] OTHER -> <<>>

\* `while is_running.load()` is false: the thread ends.
ListenerExit(t) ==
    /\ listeners[t] > 0
    /\ ~is_running[t]
    /\ listeners' = [listeners EXCEPT ![t] = @ - 1]
    /\ message_tx' = <<>>
    /\ last_op' = Op("listener_exit", t, "")
    /\ UNCHANGED <<is_running, protocol, serial, timers_and_phases, pending,
                   registry_vars, port_vars, now, graph_vars, codec, listener_threads>>

\* bytes_to_read() fails: an error message, and the thread returns.
ListenerPollError(t) ==
    /\ listeners[t] > 0
    /\ is_running[t] /\ serial[t].port
    /\ listeners' = [listeners EXCEPT ![t] = @ - 1]
    /\ message_tx' = <<ReadErrorMessage(MotorName(t))>>
    /\ last_op' = Op("listener_poll_error", t, "")
    /\ UNCHANGED <<is_running, protocol, serial, timers_and_phases, pending,
                   registry_vars, port_vars, now, graph_vars, codec, listener_threads>>

\* bytes_to_read() is not 0 and read_exact fails (an I/O error, or the
\* timeout when fewer than 3 bytes arrive).
ListenerReadError(t) ==
    /\ listeners[t] > 0
    /\ is_running[t] /\ serial[t].port
    /\ Len(rx[serial[t].port_name]) # 0
    /\ listeners' = [listeners EXCEPT ![t] = @ - 1]
    /\ message_tx' = <<ReadErrorMessage(<<"Port: ", MotorName(t)>>)>>
    /\ last_op' = Op("listener_read_error", t, "")
    /\ UNCHANGED <<is_running, protocol, serial, timers_and_phases, pending,
                   registry_vars, port_vars, now, graph_vars, codec, listener_threads>>

AfterReadNoClear(buffer, state) == SubSeq(buffer, 4, Len(buffer))

\* The receive buffer after read_exact has taken 3 bytes and the arm of the
\* decoded state has run: the arm Invalid clears it.
AfterRead(buffer, state) ==
    IF state = "Invalid" THEN <<>> ELSE SubSeq(buffer, 4, Len(buffer))

\* bytes_to_read() is not 0 and read_exact returns 3 bytes: decode and dispatch.
ListenerDispatch(t) ==
    /\ listeners[t] > 0
    /\ is_running[t] /\ serial[t].port
    /\ Len(rx[serial[t].port_name]) >= 3
    /\ LET p == serial[t].port_name
           buf == SubSeq(rx[p], 1, 3)
           state == StepperStateFrom(buf)
       IN  /\ timers_and_phases' = [timers_and_phases EXCEPT ![t] = Dispatch(@, state, now)]
           /\ message_tx' = DispatchMessages(state, t)
           /\ is_running' = [is_running EXCEPT ![t] = IF IsStop(state) THEN FALSE ELSE @]
           /\ rx' = [rx EXCEPT ![p] = AfterRead(@, state)]
           /\ last_op' = Op("dispatch", t, state)
    /\ UNCHANGED <<protocol, serial, listeners, pending, registry_vars, wire, now, graph_vars, codec, listener_threads>>

(***************************************************************************)
(* The environment: the device and the clock.                              *)
(***************************************************************************)
\* The device sends a code, the receive buffer holding at most `max` codes.
DeviceSendUpTo(p, code, max) ==
    /\ p \in PortsHeld
    /\ Len(rx[p]) + 3 <= 3 * max
    /\ rx' = [rx EXCEPT ![p] = @ \o code]
    /\ message_tx' = <<>>
    /\ last_op' = Op("device", 0, StepperStateFrom(code))
    /\ UNCHANGED <<motor_vars, registry_vars, wire, now, graph_vars, codec, listener_threads>>

DeviceSend(p, code) == DeviceSendUpTo(p, code, MaxRxCodes)

Tick ==
    /\ now < MaxTime
    /\ now' = now + 1
    /\ message_tx' = <<>>
    /\ last_op' = Op("tick", 0, "")
    /\ UNCHANGED <<motor_vars, registry_vars, port_vars, graph_vars, codec, listener_threads>>

\* The loop's iteration that finds no byte to read, and sleeps.
ListenerIdle(t) ==
    /\ listeners[t] > 0
    /\ is_running[t] /\ serial[t].port
    /\ Len(rx[serial[t].port_name]) = 0
    /\ message_tx' = <<>>
    /\ last_op' = Op("listener_idle", t, "")
    /\ UNCHANGED <<motor_vars, registry_vars, port_vars, now, graph_vars, codec, listener_threads>>

\* The sliders of a tab, enabled while the motor is not running.
EditProtocol(t, p) ==
    /\ t \in added_tabs
    /\ ~is_running[t]
    /\ protocol' = [protocol EXCEPT ![t] = p]
    /\ message_tx' = <<>>
    /\ last_op' = Op("edit", t, "")
    /\ UNCHANGED <<is_running, serial, timers_and_phases, listeners, pending,
                   registry_vars, port_vars, now, graph_vars, codec, listener_threads>>

(***************************************************************************)
(* Serial::connect_to_serial_port, Serial::new and the connection thread   *)
(* of Tabs::thread_spawn_new_motor.                                        *)
(***************************************************************************)
\* `io` lists the operations the thread has done on its port since it was
\* spawned, the reads after the first left out.
ConnIdle ==
    [pc |-> "idle", port |-> NoPort, counter |-> 0, protocol |-> ProtocolDefault, io |-> <<>>]

LogIo(io, what) == IF what \in Range(io) THEN io ELSE Append(io, what)

Ok == <<"o", "k", "!">>

refresh_available_serial_ports(connected) ==
    SelectSeq(SystemPorts, LAMBDA p : p \notin Range(connected))

\* The selection of a tab after a refresh: kept when still available.
RefreshedSelection(sel, avail) ==
    IF sel \in Range(avail) THEN sel
    ELSE IF avail = <<>> THEN NoPort ELSE avail[1]

ClickRefresh(t) ==
    /\ t \in added_tabs
    /\ ~serial[t].port /\ promise_serial_connect[t] = "None"
    /\ LET avail == refresh_available_serial_ports(already_connected_ports) IN
        /\ available_ports' = avail
        /\ selected_port' = [selected_port EXCEPT ![t] = RefreshedSelection(@, avail)]
    /\ message_tx' = <<>>
    /\ last_op' = Op("refresh", t, "")
    /\ UNCHANGED <<motor_vars, added_tabs, absolute_tab_counter, motor_keys,
                   promise_serial_connect, already_connected_ports, conn,
                   port_vars, now, graph_vars, codec, listener_threads>>

\* The combo box of the available ports.
SelectPort(t, p) ==
    /\ t \in added_tabs
    /\ ~serial[t].port /\ promise_serial_connect[t] = "None"
    /\ p \in Range(available_ports)
    /\ selected_port' = [selected_port EXCEPT ![t] = p]
    /\ message_tx' = <<>>
    /\ last_op' = Op("select", t, p)
    /\ UNCHANGED <<motor_vars, added_tabs, absolute_tab_counter, motor_keys, available_ports,
                   promise_serial_connect, already_connected_ports, conn,
                   port_vars, now, graph_vars, codec, listener_threads>>

\* The button "Connect": thread_spawn_new_motor up to thread::spawn.
ClickConnect(t) ==
    /\ t \in added_tabs
    /\ ~serial[t].port /\ promise_serial_connect[t] = "None"
    /\ available_ports # <<>>
    /\ Len(already_connected_ports) + Cardinality({u \in TabIds : conn[u].pc # "idle"})
           < MaxConnected
    /\ promise_serial_connect' = [promise_serial_connect EXCEPT ![t] = "Some"]
    /\ conn' = [conn EXCEPT ![t] = [pc |-> "open", port |-> selected_port[t],
                                    counter |-> 0, protocol |-> protocol[t], io |-> <<>>]]
    /\ message_tx' = <<Message("Info", <<"Connecting to serial port", selected_port[t]>>,
                               NoError, MotorName(t))>>
    /\ last_op' = Op("connect", t, selected_port[t])
    /\ UNCHANGED <<motor_vars, added_tabs, absolute_tab_counter, motor_keys, selected_port,
                   available_ports, already_connected_ports, port_vars, now, graph_vars, codec, listener_threads>>

ConnectErrorMessage(t, port, error) ==
    Message("Error", <<"Error while connecting to serial port", port>>, error, MotorName(t))

ConnectedMessage(t, port) ==
    Message("Success", <<"Successfully connected to serial port", port>>, NoError, MotorName(t))

ConnFailKeepsPromise(t, error) ==
    /\ conn' = [conn EXCEPT ![t] = ConnIdle]
    /\ message_tx' = <<ConnectErrorMessage(t, conn[t].port, error)>>
    /\ last_op' = Op("connect_failed", t, error)
    /\ UNCHANGED <<motor_vars, added_tabs, absolute_tab_counter, motor_keys, selected_port,
                   available_ports, promise_serial_connect, already_connected_ports,
                   wire, now, graph_vars, codec, listener_threads>>

\* The Err arm of the connection thread: one error message, the promise
\* back to None, and the thread ends (its port handle, if any, is dropped).
ConnFail(t, error) ==
    /\ conn' = [conn EXCEPT ![t] = ConnIdle]
    /\ promise_serial_connect' = [promise_serial_connect EXCEPT ![t] = "None"]
    /\ message_tx' = <<ConnectErrorMessage(t, conn[t].port, error)>>
    /\ last_op' = Op("connect_failed", t, error)
    /\ UNCHANGED <<motor_vars, added_tabs, absolute_tab_counter, motor_keys, selected_port,
                   available_ports, already_connected_ports, wire, now, graph_vars, codec, listener_threads>>

\* serialport::new(..).open()? succeeds: the system grants the port, which
\* no other handle holds.
ConnOpen(t) ==
    /\ conn[t].pc = "open"
    /\ conn[t].port \in Ports \ PortsHeld
    /\ conn' = [conn EXCEPT ![t].pc = "write_bye"]
    /\ message_tx' = <<>>
    /\ last_op' = Op("open", t, conn[t].port)
    /\ UNCHANGED <<motor_vars, added_tabs, absolute_tab_counter, motor_keys, selected_port,
                   available_ports, promise_serial_connect, already_connected_ports,
                   port_vars, now, graph_vars, codec, listener_threads>>

\* open()? fails: the port does not exist, is held by another handle, or
\* the system refuses it.
ConnOpenError(t) ==
    /\ conn[t].pc = "open"
    /\ ConnFail(t, "open failed")
    /\ UNCHANGED rx

ConnSkipBye(t) ==
    /\ conn[t].pc = "write_bye"
    /\ conn' = [conn EXCEPT ![t].pc = "clear"]
    /\ message_tx' = <<>>
    /\ last_op' = Op("write_bye", t, conn[t].port)
    /\ UNCHANGED <<motor_vars, added_tabs, absolute_tab_counter, motor_keys, selected_port,
                   available_ports, promise_serial_connect, already_connected_ports,
                   port_vars, now, graph_vars, codec, listener_threads>>

\* write_all(b"bye!")?
ConnWriteBye(t) ==
    /\ conn[t].pc = "write_bye"
    /\ wire' = [wire EXCEPT ![conn[t].port] = "bye!"]
    /\ conn' = [conn EXCEPT ![t].pc = "clear", ![t].io = LogIo(@, "bye!")]
    /\ message_tx' = <<>>
    /\ last_op' = Op("write_bye", t, conn[t].port)
    /\ UNCHANGED <<motor_vars, added_tabs, absolute_tab_counter, motor_keys, selected_port,
                   available_ports, promise_serial_connect, already_connected_ports,
                   rx, now, graph_vars, codec, listener_threads>>

\* sleep(200 ms); clear(ClearBuffer::All)?
ConnClear(t) ==
    /\ conn[t].pc = "clear"
    /\ rx' = [rx EXCEPT ![conn[t].port] = <<>>]
    /\ conn' = [conn EXCEPT ![t].pc = "write_hi", ![t].io = LogIo(@, "clear")]
    /\ message_tx' = <<>>
    /\ last_op' = Op("clear", t, conn[t].port)
    /\ UNCHANGED <<motor_vars, added_tabs, absolute_tab_counter, motor_keys, selected_port,
                   available_ports, promise_serial_connect, already_connected_ports,
                   wire, now, graph_vars, codec, listener_threads>>

\* counter = 0; write_all(b"hi?")?
ConnWriteHi(t) ==
    /\ conn[t].pc = "write_hi"
    /\ wire' = [wire EXCEPT ![conn[t].port] = "hi?"]
    /\ conn' = [conn EXCEPT ![t].pc = "read", ![t].counter = 0, ![t].io = LogIo(@, "hi?")]
    /\ message_tx' = <<>>
    /\ last_op' = Op("write_hi", t, conn[t].port)
    /\ UNCHANGED <<motor_vars, added_tabs, absolute_tab_counter, motor_keys, selected_port,
                   available_ports, promise_serial_connect, already_connected_ports,
                   rx, now, graph_vars, codec, listener_threads>>

\* The text of the bail! after the last retry.
RetriesError == "Raspberry connection failed after 10 retries"

RetriesNeverExhausted(counter) == FALSE

\* `counter >= 10` after the increment.
RetriesExhausted(counter) == counter >= HANDSHAKE_RETRIES

\* One iteration of the loop: read_exact returns 3 bytes.
ConnRead(t) ==
    /\ conn[t].pc = "read"
    /\ Len(rx[conn[t].port]) >= 3
    /\ LET p == conn[t].port
           buf == SubSeq(rx[p], 1, 3)
       IN  IF buf = Ok
              THEN /\ rx' = [rx EXCEPT ![p] = <<>>]
                   /\ conn' = [conn EXCEPT ![t].pc = "push", ![t].io = LogIo(@, "read")]
                   /\ message_tx' = <<>>
                   /\ last_op' = Op("handshake_ok", t, p)
                   /\ UNCHANGED <<promise_serial_connect>>
              ELSE IF RetriesExhausted(conn[t].counter + 1)
                      THEN /\ rx' = [rx EXCEPT ![p] = <<>>]
                           /\ conn' = [conn EXCEPT ![t] = ConnIdle]
                           /\ promise_serial_connect' =
                                  [promise_serial_connect EXCEPT ![t] = "None"]
                           /\ message_tx' = <<ConnectErrorMessage(t, p, RetriesError)>>
                           /\ last_op' = Op("connect_failed", t, RetriesError)
                      ELSE /\ rx' = [rx EXCEPT ![p] = SubSeq(@, 4, Len(@))]
                           /\ conn' = [conn EXCEPT ![t].counter = @ + 1,
                                                     ![t].io = LogIo(@, "read")]
                           /\ message_tx' = <<>>
                           /\ last_op' = Op("handshake_retry", t, p)
                           /\ UNCHANGED <<promise_serial_connect>>
    /\ UNCHANGED <<motor_vars, added_tabs, absolute_tab_counter, motor_keys, selected_port,
                   available_ports, already_connected_ports, wire, now, graph_vars, codec, listener_threads>>

\* A `?` of the handshake returns an I/O error (for read_exact also the
\* 2 s timeout).
ConnIoError(t) ==
    /\ conn[t].pc \in {"write_bye", "clear", "write_hi", "read"}
    /\ ConnFail(t, "io error")
    /\ UNCHANGED rx

\* Serial::new after the handshake: push the port name.
ConnPush(t) ==
    /\ conn[t].pc = "push"
    /\ already_connected_ports' = Append(already_connected_ports, conn[t].port)
    /\ conn' = [conn EXCEPT ![t].pc = "insert"]
    /\ message_tx' = <<>>
    /\ last_op' = Op("push", t, conn[t].port)
    /\ UNCHANGED <<motor_vars, added_tabs, absolute_tab_counter, motor_keys, selected_port,
                   available_ports, promise_serial_connect, port_vars, now, graph_vars, codec, listener_threads>>

\* Motor::new_with_already_loaded_protocol, motors.insert, promise.insert
\* and the success message. The threads of the Motor that was in the map keep
\* its is_running and port, not those of the new Motor.
ConnInsert(t) ==
    /\ conn[t].pc = "insert"
    /\ motor_keys' = motor_keys \cup {t}
    /\ is_running' = [is_running EXCEPT ![t] = FALSE]
    /\ protocol' = [protocol EXCEPT ![t] = conn[t].protocol]
    /\ serial' = [serial EXCEPT ![t] = [port_name |-> conn[t].port, port |-> TRUE]]
    /\ timers_and_phases' = [timers_and_phases EXCEPT ![t] = TimersAndPhasesDefault]
    /\ listeners' = [listeners EXCEPT ![t] = 0]
    /\ pending' = [pending EXCEPT ![t] = <<>>]
    /\ promise_serial_connect' = [promise_serial_connect EXCEPT ![t] = "None"]
    /\ conn' = [conn EXCEPT ![t] = ConnIdle]
    /\ message_tx' = <<ConnectedMessage(t, conn[t].port)>>
    /\ last_op' = Op("connected", t, conn[t].port)
    /\ UNCHANGED <<added_tabs, absolute_tab_counter, selected_port, available_ports,
                   already_connected_ports, port_vars, now, graph_vars, codec, listener_threads>>

(***************************************************************************)
(* Motor::disconnect, Tabs::disconnect, Tabs::remove_tab, Tabs::on_close,  *)
(* Tabs::on_add and the emergency stop.                                    *)
(***************************************************************************)
DisconnectedMessage(t) ==
    Message("Info", <<"Disconnected from", serial[t].port_name>>, NoError, MotorName(t))

ByeNotWritten(w, ts) == w

\* Serial::disconnect: with the handle present, take it and write "bye!".
ByeWritten(w, ts) ==
    [p \in Ports |->
        IF \E t \in ts : serial[t].port /\ serial[t].port_name = p
           THEN "bye!" ELSE w[p]]

\* Motor::disconnect of the motors `ts`, each stopped first when `stops[t]`.
MotorDisconnect(ts, stops) ==
    /\ is_running' = [t \in TabIds |-> IF t \in ts /\ stops[t] THEN FALSE ELSE is_running[t]]
    /\ pending' = [t \in TabIds |->
                      IF t \in ts /\ stops[t] THEN send_bytes(pending[t], StopCommand)
                      ELSE pending[t]]
    /\ timers_and_phases' = [t \in TabIds |->
                      IF t \in ts /\ stops[t] THEN StoppedTimers(timers_and_phases[t], now)
                      ELSE timers_and_phases[t]]
    /\ wire' = ByeWritten(wire, ts)
    /\ serial' = [t \in TabIds |-> IF t \in ts THEN SerialDefault ELSE serial[t]]

DisconnectMessages(ts, stops) ==
    LET F[i \in 0 .. MaxTabs] ==
            IF i = 0 THEN <<>>
            ELSE F[i - 1] \o (IF i \in ts /\ stops[i] THEN <<StoppedMessage(i)>> ELSE <<>>)
                         \o (IF i \in ts THEN <<DisconnectedMessage(i)>> ELSE <<>>)
    IN  F[MaxTabs]

\* The button "DISCONNECT" of a tab: Tabs::disconnect.
ClickDisconnect(t) ==
    /\ t \in added_tabs
    /\ serial[t].port
    /\ is_running[t] => Len(pending[t]) < MaxPending
    /\ LET ports == SelectSeqNe(already_connected_ports, serial[t].port_name)
           avail == refresh_available_serial_ports(ports)
       IN  /\ already_connected_ports' = ports
           /\ available_ports' = avail
           /\ selected_port' = [selected_port EXCEPT ![t] = RefreshedSelection(@, avail)]
    /\ MotorDisconnect({t}, is_running)
    /\ message_tx' = DisconnectMessages({t}, is_running)
    /\ last_op' = Op("disconnect", t, serial[t].port_name)
    /\ UNCHANGED <<protocol, listeners, added_tabs, absolute_tab_counter, motor_keys,
                   promise_serial_connect, conn, rx, now, graph_vars, codec, listener_threads>>

\* The button "EMERGENCY STOP": stop_motor, then disconnect, of every motor
\* of the map.
EmergencyStop(t) ==
    /\ t \in added_tabs
    /\ \A u \in motor_keys : Len(pending[u]) < MaxPending
    /\ MotorDisconnect(motor_keys, [u \in TabIds |-> TRUE])
    /\ message_tx' = <<Message("Warning", "Emergency stop", NoError, MotorName(t))>>
                     \o DisconnectMessages(motor_keys, [u \in TabIds |-> TRUE])
    /\ last_op' = Op("emergency_stop", t, "")
    /\ UNCHANGED <<protocol, listeners, registry_vars, rx, now, graph_vars, codec, listener_threads>>

RunningWarning(t) ==
    Message("Warning", "Motor is running! Please stop the motor before closing the tab.",
            NoError, MotorName(t))

RemoveAllowedAlways(t) == TRUE

\* on_close goes on to remove_tab only when the motor is not running.
RemoveAllowed(t) == ~is_running[t]

\* Tabs::on_close, with Tabs::remove_tab.
OnClose(t) ==
    /\ t \in added_tabs
    /\ IF ~RemoveAllowed(t)
          THEN /\ message_tx' = <<RunningWarning(t)>>
               /\ last_op' = Op("close_rejected", t, "")
               /\ UNCHANGED <<motor_vars, registry_vars, port_vars>>
          ELSE /\ already_connected_ports' =
                      SelectSeqNe(already_connected_ports, serial[t].port_name)
               /\ wire' = ByeWritten(wire, {t})
               /\ message_tx' = DisconnectMessages({t}, is_running)
               /\ selected_port' = [selected_port EXCEPT ![t] = NoPort]
               /\ promise_serial_connect' = [promise_serial_connect EXCEPT ![t] = "absent"]
               /\ motor_keys' = motor_keys \ {t}
               /\ added_tabs' = added_tabs \ {t}
               /\ is_running' = [is_running EXCEPT ![t] = FALSE]
               /\ protocol' = [protocol EXCEPT ![t] = ProtocolDefault]
               /\ serial' = [serial EXCEPT ![t] = SerialDefault]
               /\ timers_and_phases' = [timers_and_phases EXCEPT ![t] = TimersAndPhasesDefault]
               /\ listeners' = [listeners EXCEPT ![t] = 0]
               /\ pending' = [pending EXCEPT ![t] = <<>>]
               /\ last_op' = Op("closed", t, "")
               /\ UNCHANGED <<absolute_tab_counter, available_ports, conn, rx>>
    /\ UNCHANGED <<now, graph_vars, codec, listener_threads>>

\* Tabs::on_add, with Tabs::init_tab.
OnAdd ==
    /\ absolute_tab_counter < MaxTabs
    /\ LET t == absolute_tab_counter + 1
           avail == refresh_available_serial_ports(already_connected_ports)
       IN  /\ avail # <<>>
           /\ absolute_tab_counter' = t
           /\ added_tabs' = added_tabs \cup {t}
           /\ motor_keys' = motor_keys \cup {t}
           /\ promise_serial_connect' = [promise_serial_connect EXCEPT ![t] = "None"]
           /\ available_ports' = avail
           /\ selected_port' = [selected_port EXCEPT ![t] = avail[1]]
           /\ is_running' = [is_running EXCEPT ![t] = FALSE]
           /\ protocol' = [protocol EXCEPT ![t] = ProtocolDefault]
           /\ serial' = [serial EXCEPT ![t] = SerialDefault]
           /\ timers_and_phases' = [timers_and_phases EXCEPT ![t] = TimersAndPhasesDefault]
           /\ listeners' = [listeners EXCEPT ![t] = 0]
           /\ pending' = [pending EXCEPT ![t] = <<>>]
           /\ last_op' = Op("add", t, "")
    /\ message_tx' = <<>>
    /\ UNCHANGED <<already_connected_ports, conn, port_vars, now, graph_vars, codec, listener_threads>>

(***************************************************************************)
(* Motor::generate_graph_rotation and Motor::generate_graph_agitation.     *)
(* A task is the thread one call spawns; each of its steps is one lock of  *)
(* the point buffer or one load of the generation counter.                 *)
(***************************************************************************)
Axes == {"rotation", "agitation"}

\* What one call reads of the axis: the cycle duration, and the delays (us)
\* the step generator yields for the axis's parameters.
GraphInputs ==
    {[duration_ms |-> 0, delays |-> <<2, 1, 2>>],
     [duration_ms |-> 1, delays |-> <<1, 1>>],
     [duration_ms |-> 1, delays |-> <<2>>]}

\* rpm_for_graph, for the step mode Full.
RpmForGraph(delay) == 300000 \div (delay + 1)

NewTask(gen, input) ==
    [gen |-> gen, pc |-> "clear", duration_ms |-> input.duration_ms,
     delays |-> input.delays, i |-> 1, delay_acc_us |-> 0, last_rpm |-> 0,
     acc_us_for_points |-> 0, is_max_points |-> FALSE]

PointThresholdUs(task) == (task.duration_ms * 1000) \div 100

\* The body of the loop after the staleness check: the two pushes and the
\* accumulators. The result is the task's locals and the point buffer.
PushStep(task, pts) ==
    LET delay == task.delays[task.i]
        rpm == RpmForGraph(delay)
        point == [gen |-> task.gen, sec |-> task.delay_acc_us, rpm |-> rpm]
        first == rpm # task.last_rpm /\ ~task.is_max_points
        second == ~first /\ task.acc_us_for_points >= PointThresholdUs(task)
                         /\ ~task.is_max_points
    IN  [task |-> [task EXCEPT
                      !.last_rpm = IF first THEN rpm ELSE @,
                      !.acc_us_for_points = (IF second THEN 0 ELSE @) + delay,
                      !.delay_acc_us = @ + delay,
                      !.i = @ + 1,
                      !.pc = "len"],
         points |-> IF first \/ second THEN Append(pts, point) ELSE pts]

\* The points one task appends when it runs alone from its clear to its end.
RECURSIVE RunAlone(_, _)
RunAlone(task, pts) ==
    IF task.i > Len(task.delays) THEN pts
    ELSE LET r == PushStep([task EXCEPT !.is_max_points = Len(pts) > MAX_POINTS_GRAPHS], pts)
         IN  RunAlone(r.task, r.points)

GraphOutput(gen, input) == RunAlone(NewTask(gen, input), <<>>)

TaskOf(a, g) == CHOOSE k \in tasks[a] : k.gen = g

SetTask(a, old, new) == tasks' = [tasks EXCEPT ![a] = (@ \ {old}) \cup {new}]

\* generate_graph_*: increment and load the generation counter, spawn the task.
GenerateGraph(a, input) ==
    /\ thread_index["rotation"] + thread_index["agitation"] < MaxGen
    /\ thread_index' = [thread_index EXCEPT ![a] = @ + 1]
    /\ tasks' = [tasks EXCEPT ![a] = @ \cup {NewTask(thread_index[a] + 1, input)}]
    /\ UNCHANGED points

\* points.lock().clear()
TaskClear(a, k) ==
    /\ k.pc = "clear"
    /\ points' = [points EXCEPT ![a] = <<>>]
    /\ SetTask(a, k, [k EXCEPT !.pc = "len"])
    /\ UNCHANGED thread_index

\* stepgen.next_delay(), then points.lock().len() > MAX_POINTS_GRAPHS
TaskLen(a, k) ==
    /\ k.pc = "len"
    /\ SetTask(a, k, IF k.i > Len(k.delays) THEN [k EXCEPT !.pc = "done"]
                     ELSE [k EXCEPT !.pc = "check",
                                    !.is_max_points = Len(points[a]) > MAX_POINTS_GRAPHS])
    /\ UNCHANGED <<points, thread_index>>

\* index_thead_initial != index_thread.load(): the stale task returns.
TaskCheck(a, k) ==
    /\ k.pc = "check"
    /\ SetTask(a, k, IF k.gen # thread_index[a] THEN [k EXCEPT !.pc = "done"]
                     ELSE [k EXCEPT !.pc = "push"])
    /\ UNCHANGED <<points, thread_index>>

\* points.lock().push(..), when the point is to be kept
TaskPush(a, k) ==
    /\ k.pc = "push"
    /\ LET r == PushStep(k, points[a]) IN
        /\ points' = [points EXCEPT ![a] = r.points]
        /\ SetTask(a, k, r.task)
    /\ UNCHANGED thread_index

(***************************************************************************)
(* Motor::import_protocol and CellSpinner::import_configuration.           *)
(***************************************************************************)
ImportOk == "Ok"
AccelerationZeroError == "The acceleration of the rotation or agitation is 0"
AccelerationTooHighError == "The acceleration of the rotation or agitation is too high"
RpmTooHighError == "The rpm of the rotation or agitation is higher than the max rpm"
DurationTooHighError == "Some duration is too high"

AccelerationZero(p) == p.rotation.acceleration = 0 \/ p.agitation.acceleration = 0

AccelerationAtLeastMax(p) ==
    \/ p.rotation.acceleration >= MAX_ACCELERATION
    \/ p.agitation.acceleration >= MAX_ACCELERATION

AccelerationTooHigh(p) ==
    \/ p.rotation.acceleration > MAX_ACCELERATION
    \/ p.agitation.acceleration > MAX_ACCELERATION

RpmTooHigh(p) ==
    \/ p.rotation.rpm > max_rpm(p.rotation)
    \/ p.agitation.rpm > max_rpm(p.agitation)

DurationTooHigh(p) ==
    \/ p.rotation.duration_of_one_direction_cycle_ms > MAX_DURATION_MS
    \/ p.agitation.duration_of_one_direction_cycle_ms > MAX_DURATION_MS
    \/ p.rotation.pause_before_direction_change_ms > MAX_DURATION_MS
    \/ p.agitation.pause_before_direction_change_ms > MAX_DURATION_MS
    \/ p.global_duration_ms > MAX_DURATION_MS
    \/ p.rotation_duration_ms > MAX_DURATION_MS
    \/ p.agitation_duration_ms > MAX_DURATION_MS
    \/ p.pause_pre_agitation_ms > MAX_DURATION_MS
    \/ p.pause_post_agitation_ms > MAX_DURATION_MS

\* The result (ImportOk or the text of the error) and the protocol the motor
\* stores when import_protocol returns.
import_protocol(stored, p) ==
    IF AccelerationZero(p) THEN [result |-> AccelerationZeroError, protocol |-> stored]
    ELSE IF AccelerationTooHigh(p)
            THEN [result |-> AccelerationTooHighError, protocol |-> stored]
    ELSE IF RpmTooHigh(p) THEN [result |-> RpmTooHighError, protocol |-> stored]
    ELSE LET checked == IF get_duration_without_pause(p) = 0
                           THEN [stored EXCEPT !.global_duration_ms = 0] ELSE stored
         IN  IF DurationTooHigh(p)
                THEN [result |-> DurationTooHighError, protocol |-> checked]
                ELSE [result |-> ImportOk, protocol |-> p]

ImportErrorMessage(t, error) ==
    Message("Error", "Error while importing the configuration", error, MotorName(t))

ImportedMessage(t) == Message("Info", "Configuration imported!", NoError, MotorName(t))

\* The delays the step generator yields for an axis: a function of the
\* axis's parameters.
StepgenDelays(r) ==
    IF r.duration_of_one_direction_cycle_ms = 0 THEN <<2, 1, 2>> ELSE <<1, 1>>

GraphInputOf(r) ==
    [duration_ms |-> r.duration_of_one_direction_cycle_ms, delays |-> StepgenDelays(r)]

\* The import of a configuration file into the motor of a tab (not into
\* all motors): import_protocol, the message, and with the protocol accepted
\* generate_graph_rotation and generate_graph_agitation.
ImportConfiguration(t, p) ==
    /\ t \in added_tabs
    /\ ~is_running[t]
    /\ LET r == import_protocol(protocol[t], p) IN
        /\ protocol' = [protocol EXCEPT ![t] = r.protocol]
        /\ IF r.result = ImportOk
              THEN /\ \A a \in Axes : thread_index[a] < MaxGen
                   /\ message_tx' = <<ImportedMessage(t)>>
                   /\ thread_index' = [a \in Axes |-> thread_index[a] + 1]
                   /\ tasks' = [a \in Axes |->
                                   tasks[a] \cup {NewTask(thread_index[a] + 1,
                                                          GraphInputOf(p[a]))}]
                   /\ UNCHANGED points
              ELSE /\ message_tx' = <<ImportErrorMessage(t, r.result)>>
                   /\ UNCHANGED graph_vars
    /\ last_op' = Op("import", t, p)
    /\ UNCHANGED <<is_running, serial, timers_and_phases, listeners, pending,
                   registry_vars, port_vars, now, codec, listener_threads>>

ImportedForAllMessage ==
    Message("Info", "Configuration imported for all stopped motors!", NoError, NoOrigin)

\* The messages of the motors whose import_protocol failed, in the order of
\* the map.
ImportErrorMessages(results) ==
    LET F[i \in 0 .. MaxTabs] ==
            IF i = 0 THEN <<>>
            ELSE F[i - 1] \o (IF i \in motor_keys /\ results[i].result # ImportOk
                                 THEN <<ImportErrorMessage(i, results[i].result)>>
                                 ELSE <<>>)
    IN  F[MaxTabs]

\* The import of a configuration file into all motors (the secondary click
\* on "Import config" of tab `t`): import_protocol on every motor of the
\* map, the messages, and the graphs.
ImportConfigurationForAll(t, p) ==
    /\ t \in added_tabs
    /\ ~is_running[t]
    /\ \A a \in Axes : thread_index[a] < MaxGen
    /\ LET results == [u \in TabIds |-> import_protocol(protocol[u], p)]
           imported == [u \in TabIds |->
                           IF u \in motor_keys
                              THEN results[u].protocol ELSE protocol[u]]
       IN  /\ protocol' = imported
           /\ message_tx' = IF ImportErrorMessages(results) # <<>>
                               THEN ImportErrorMessages(results)
                               ELSE <<ImportedForAllMessage>>
           /\ thread_index' = [a \in Axes |-> thread_index[a] + 1]
           /\ tasks' = [a \in Axes |->
                           tasks[a] \cup {NewTask(thread_index[a] + 1,
                                                  GraphInputOf(imported[t][a]))}]
    /\ last_op' = Op("import_for_all", t, p)
    /\ UNCHANGED <<is_running, serial, timers_and_phases, listeners, pending, points,
                   registry_vars, port_vars, now, codec, listener_threads>>

\* The protocols a configuration file can hold. Every duration is `base`
\* but the field `high`, which is above the maximum (no field for high = 0).
ImportDurations(base, high) ==
    [i \in 1 .. 9 |-> IF i = high THEN MAX_DURATION_MS + 1 ELSE base]

ImportInput(accel_r, accel_a, rpm_r, rpm_a, d) ==
    NewProtocol(RotationNew(rpm_r, accel_r, "M128", d[1], d[2], "Forward"), d[3], d[4],
                RotationNew(rpm_a, accel_a, "Full", d[5], d[6], "Backward"), d[7], d[8],
                d[9])

\* Each acceleration 0, in range or too high and each rpm at the maximum of
\* its step mode or above it, with durations in range or one too high; and
\* with accelerations and rpm in range, each duration field too high in turn.
ImportInputs ==
    {ImportInput(accel_r, accel_a, rpm_r, rpm_a, d) :
        accel_r \in {0, 1, MAX_ACCELERATION + 1},
        accel_a \in {0, MAX_ACCELERATION, MAX_ACCELERATION + 1},
        rpm_r \in {MAX_RPM \div 128, MAX_RPM \div 128 + 1},
        rpm_a \in {MAX_RPM, MAX_RPM + 1},
        d \in {ImportDurations(MAX_DURATION_MS, 0), ImportDurations(0, 1)}}
    \cup
    {ImportInput(1, MAX_ACCELERATION, MAX_RPM \div 128, MAX_RPM,
                 ImportDurations(base, high)) :
        base \in {0, MAX_DURATION_MS}, high \in 0 .. 9}

(***************************************************************************)
(* Protocol::bytes_vec_to_send and Rotation::to_bytes: the command buffer. *)
(* A byte is a number of 0 .. 255; the index i of the program is the       *)
(* index i + 1 here.                                                       *)
(***************************************************************************)
BYTES == 110

RECURSIVE to_le_bytes(_, _)
\* n.to_le_bytes() of an unsigned integer of `width` bytes.
to_le_bytes(n, width) ==
    IF width = 0 THEN <<>> ELSE <<n % 256>> \o to_le_bytes(n \div 256, width - 1)

\* bytes[from..to].copy_from_slice(slice); it panics when the lengths differ.
copy_from_slice(bytes, from, to, slice) ==
    IF Len(slice) # to - from THEN <<>>
    ELSE [i \in 1 .. Len(bytes) |->
             IF from < i /\ i <= to THEN slice[i - from] ELSE bytes[i]]

Zeroes(n) == [i \in 1 .. n |-> 0]

StepMode128_to_byte(step_mode) ==
    CASE step_mode = "Full" -> 0
      [] step_mode = "M2" -> 1
      [] step_mode = "M4" -> 2
      [] step_mode = "M8" -> 3
      [] step_mode = "M16" -> 4
      [] step_mode = "M32" -> 5
      [] step_mode = "M64" -> 6
      [] step_mode = "M128" -> 7

Direction_to_byte_zero(direction) == 0

Direction_to_byte(direction) ==
    CASE direction = "Forward" -> 0
      [] direction = "Backward" -> 1

to_bytes_direction_first(r) ==
    LET b0 == Zeroes(34)
        b1 == copy_from_slice(b0, 0, 4, to_le_bytes(r.rpm, 4))
        b2 == copy_from_slice(b1, 4, 8, to_le_bytes(r.acceleration, 4))
        b3 == copy_from_slice(b2, 8, 9, to_le_bytes(Direction_to_byte(r.direction), 1))
        b4 == copy_from_slice(b3, 9, 17, to_le_bytes(r.duration_of_one_direction_cycle_ms, 8))
        b5 == copy_from_slice(b4, 17, 25, to_le_bytes(r.steps_for_one_direction_cycle, 8))
        b6 == copy_from_slice(b5, 25, 26, to_le_bytes(StepMode128_to_byte(r.step_mode), 1))
    IN  copy_from_slice(b6, 26, 34, to_le_bytes(r.pause_before_direction_change_ms, 8))

\* Rotation::to_bytes: the 34 bytes of an axis.
to_bytes(r) ==
    LET b0 == Zeroes(34)
        b1 == copy_from_slice(b0, 0, 4, to_le_bytes(r.rpm, 4))
        b2 == copy_from_slice(b1, 4, 8, to_le_bytes(r.acceleration, 4))
        b3 == copy_from_slice(b2, 8, 9, to_le_bytes(StepMode128_to_byte(r.step_mode), 1))
        b4 == copy_from_slice(b3, 9, 17, to_le_bytes(r.duration_of_one_direction_cycle_ms, 8))
        b5 == copy_from_slice(b4, 17, 25, to_le_bytes(r.steps_for_one_direction_cycle, 8))
        b6 == copy_from_slice(b5, 25, 26, to_le_bytes(Direction_to_byte(r.direction), 1))
    IN  copy_from_slice(b6, 26, 34, to_le_bytes(r.pause_before_direction_change_ms, 8))

\* The bytes b'a' and b'z'.
ByteA == 97
ByteZ == 122

\* Protocol::bytes_vec_to_send: the 110 bytes of a protocol.
bytes_vec_to_send(p) ==
    LET b0 == [Zeroes(BYTES) EXCEPT ![1] = ByteA]
        b1 == copy_from_slice(b0, 1, 35, to_bytes(p.rotation))
        b2 == copy_from_slice(b1, 35, 43, to_le_bytes(p.rotation_duration_ms, 8))
        b3 == copy_from_slice(b2, 43, 51, to_le_bytes(p.pause_pre_agitation_ms, 8))
        b4 == copy_from_slice(b3, 51, 85, to_bytes(p.agitation))
        b5 == copy_from_slice(b4, 85, 93, to_le_bytes(p.agitation_duration_ms, 8))
        b6 == copy_from_slice(b5, 93, 101, to_le_bytes(p.pause_post_agitation_ms, 8))
        b7 == copy_from_slice(b6, 101, 109, to_le_bytes(p.global_duration_ms, 8))
    IN  [b7 EXCEPT ![110] = ByteZ]

\* The decoder of the command buffer, the inverse the device applies: every
\* field read back from its offset.
RECURSIVE from_le_bytes(_)
from_le_bytes(bytes) ==
    IF bytes = <<>> THEN 0 ELSE bytes[1] + 256 * from_le_bytes(Tail(bytes))

Slice(bytes, from, to) == SubSeq(bytes, from + 1, to)

StepMode128_from_byte(b) == CHOOSE m \in StepMode128 : StepMode128_to_byte(m) = b

Direction_from_byte(b) == IF b = 0 THEN "Forward" ELSE "Backward"

decode_rotation(bytes) ==
    [rpm |-> from_le_bytes(Slice(bytes, 0, 4)),
     acceleration |-> from_le_bytes(Slice(bytes, 4, 8)),
     step_mode |-> StepMode128_from_byte(bytes[9]),
     duration_of_one_direction_cycle_ms |-> from_le_bytes(Slice(bytes, 9, 17)),
     steps_for_one_direction_cycle |-> from_le_bytes(Slice(bytes, 17, 25)),
     direction |-> Direction_from_byte(bytes[26]),
     pause_before_direction_change_ms |-> from_le_bytes(Slice(bytes, 26, 34))]

decode(bytes) ==
    NewProtocol(decode_rotation(Slice(bytes, 1, 35)),
                from_le_bytes(Slice(bytes, 35, 43)),
                from_le_bytes(Slice(bytes, 43, 51)),
                decode_rotation(Slice(bytes, 51, 85)),
                from_le_bytes(Slice(bytes, 85, 93)),
                from_le_bytes(Slice(bytes, 93, 101)),
                from_le_bytes(Slice(bytes, 101, 109)))

\* The largest value the model gives to a field of 4 or 8 bytes.
MaxField == 2147483647

\* The axes to encode: every step mode and direction, with small values,
\* the largest of the program and values that fill more than one byte.
AxisInputs ==
    {[rpm |-> ra[1], acceleration |-> ra[2], step_mode |-> m,
      duration_of_one_direction_cycle_ms |-> d[1],
      steps_for_one_direction_cycle |-> d[2],
      direction |-> dir,
      pause_before_direction_change_ms |-> d[3]] :
        ra \in {<<1, 1>>, <<MAX_RPM, MAX_ACCELERATION>>, <<256, 65536>>},
        m \in StepMode128,
        dir \in {"Forward", "Backward"},
        d \in {<<0, 0, 0>>, <<1, 2, 3>>, <<MaxField, 16777216, 255>>}}

DurationInputs ==
    {<<0, 0, 0, 0, 0>>, <<1, 2, 3, 4, 5>>, <<5, 4, 3, 2, 1>>,
     <<MaxField, 256, 65535, 65536, 16777215>>}

FixedAxis == RotationNew(300, 2000, "M16", 7, 8, "Backward")

EncodeInputs ==
    {NewProtocol(r, 1, 2, FixedAxis, 3, 4, 5) : r \in AxisInputs}
    \cup {NewProtocol(FixedAxis, 1, 2, r, 3, 4, 5) : r \in AxisInputs}
    \cup {NewProtocol(Rotation(1, 0, "Forward"), d[1], d[2],
                      Rotation(2, 1, "Backward"), d[3], d[4], d[5]) : d \in DurationInputs}

\* A call of a conversion: the state keeps its input and its result until
\* the caller has taken the result.
Convert(op, input, output) ==
    /\ codec = CodecIdle
    /\ codec' = [op |-> op, input |-> input, output |-> output]
    /\ message_tx' = <<>>
    /\ last_op' = Op(op, 0, "")
    /\ UNCHANGED <<motor_vars, registry_vars, port_vars, now, graph_vars, listener_threads>>

ConvertReturn ==
    /\ codec # CodecIdle
    /\ codec' = CodecIdle
    /\ message_tx' = <<>>
    /\ last_op' = Op("return", 0, "")
    /\ UNCHANGED <<motor_vars, registry_vars, port_vars, now, graph_vars, listener_threads>>

Encode(p) == Convert("bytes_vec_to_send", p, bytes_vec_to_send(p))

\* The bytes of the telemetry codes, and three that are in no code.
CodeBytes ==
    {"o", "k", "!", "f", "i", "n", "e", "m", "r", "1", "2", "3", "s", "t", "p", "q",
     "a", "b", "c", "x", "y", "z"}

DecodeTelemetry(bytes) == Convert("StepperState::from", bytes, StepperStateFrom(bytes))

MaxRpm(r) == Convert("max_rpm", r, max_rpm(r))

(***************************************************************************)
(* The sliders of a tab (Tabs::ui): rpm, acceleration, step mode and       *)
(* durations of an axis, enabled while the motor is not running.           *)
(***************************************************************************)
KeepRpm(r) == r

\* The end of the frame of an edit: the rpm brought down to the maximum of
\* the step mode.
ClampRpm(r) == IF r.rpm > max_rpm(r) THEN [r EXCEPT !.rpm = max_rpm(r)] ELSE r

\* An edit that sets *_graph_needs_update: the new axis, clamped, and
\* generate_graph_* of the axis.
EditAxis(t, a, r) ==
    /\ t \in added_tabs
    /\ ~is_running[t]
    /\ thread_index[a] < MaxGen
    /\ protocol' = [protocol EXCEPT ![t][a] = ClampRpm(r)]
    /\ thread_index' = [thread_index EXCEPT ![a] = @ + 1]
    /\ tasks' = [tasks EXCEPT ![a] =
                    @ \cup {NewTask(thread_index[a] + 1, GraphInputOf(ClampRpm(r)))}]
    /\ message_tx' = <<>>
    /\ last_op' = Op("edit", t, "")
    /\ UNCHANGED <<is_running, serial, timers_and_phases, listeners, pending,
                   registry_vars, port_vars, now, points, codec, listener_threads>>

\* Slider::new(&mut rpm, 1..=max_rpm)
SetRpm(t, a, v) ==
    /\ v \in 1 .. max_rpm(protocol[t][a])
    /\ EditAxis(t, a, [protocol[t][a] EXCEPT !.rpm = v])

\* Slider::new(&mut acceleration, 1..=MAX_ACCELERATION)
SetAcceleration(t, a, v) ==
    /\ v \in 1 .. MAX_ACCELERATION
    /\ EditAxis(t, a, [protocol[t][a] EXCEPT !.acceleration = v])

\* The combo box of the step modes.
SetStepMode(t, a, mode) ==
    /\ mode \in StepMode128
    /\ EditAxis(t, a, [protocol[t][a] EXCEPT !.step_mode = mode])

\* The drag values of the cycle duration.
SetCycleDuration(t, a, v) ==
    EditAxis(t, a, [protocol[t][a] EXCEPT !.duration_of_one_direction_cycle_ms = v])

\* The drag values of the duration of a phase: no graph to generate.
SetPhaseDuration(t, a, v) ==
    /\ t \in added_tabs
    /\ ~is_running[t]
    /\ protocol' = [protocol EXCEPT ![t] =
                       IF a = "rotation" THEN [@ EXCEPT !.rotation_duration_ms = v]
                       ELSE [@ EXCEPT !.agitation_duration_ms = v]]
    /\ message_tx' = <<>>
    /\ last_op' = Op("edit", t, "")
    /\ UNCHANGED <<is_running, serial, timers_and_phases, listeners, pending,
                   registry_vars, port_vars, now, graph_vars, codec, listener_threads>>

\* The values the sliders are moved to: the ends of the ranges and the
\* maximum rpm of the finest step mode, with the value above it.
RpmInputs == {MAX_RPM \div 128, MAX_RPM \div 128 + 1, MAX_RPM}
AccelerationInputs == {1, MAX_ACCELERATION}
StepModeInputs == {"Full", "M128"}

\* The files imported between the edits: one that is accepted, and those
\* with an acceleration or an rpm out of range.
EditImportInputs ==
    {ImportInput(accel_r, MAX_ACCELERATION, rpm_r, rpm_a,
                 ImportDurations(MAX_DURATION_MS, 0)) :
        accel_r \in {0, 1, MAX_ACCELERATION + 1},
        rpm_r \in {MAX_RPM \div 128, MAX_RPM \div 128 + 1},
        rpm_a \in {MAX_RPM, MAX_RPM + 1}}

GraphStep(A) ==
    /\ A
    /\ message_tx' = <<>>
    /\ last_op' = Op("graph", 0, "")
    /\ UNCHANGED <<motor_vars, registry_vars, port_vars, now, codec, listener_threads>>

(***************************************************************************)
(* Serial::listen_to_serial_port, one step per lock or atomic access: the  *)
(* test of the loop, bytes_to_read, read_exact, each write of the arm of   *)
(* the decoded state, and back to the test after the sleep.                *)
(***************************************************************************)
\* The shared accesses of the arm of `match state`, in the order of the code.
ArmWrites(state) ==
    CASE IsStop(state) ->
            <<"stop_time", "phase", "phase_start_time", "global_phase",
              "global_phase_start_time", "message", "store">>
      [] state \in SubPhaseStates -> <<"phase", "phase_start_time">>
      [] state \in MainPhaseStates -> <<"global_phase", "global_phase_start_time">>
      [] state = "Invalid" -> <<"clear">>
      [] OTHER -> <<>>

\* One `timers_and_phases.lock().unwrap()` statement of an arm.
ArmWrite(tp, w, state, instant) ==
    LET timer == IF IsStop(state) THEN None ELSE instant IN
    CASE w = "stop_time" -> set_stop_time_motor_stopped(tp, instant)
      [] w = "phase" -> [tp EXCEPT !.phase = state]
      [] w = "phase_start_time" -> [tp EXCEPT !.phase_start_time = timer]
      [] w = "global_phase" -> [tp EXCEPT !.global_phase = state]
      [] w = "global_phase_start_time" -> [tp EXCEPT !.global_phase_start_time = timer]
      [] OTHER -> tp

\* The thread `i` of tab `t` moves to `next`.
ThreadGoes(t, i, next) ==
    /\ listener_threads' = [listener_threads EXCEPT ![t][i] = next]
    /\ UNCHANGED listeners

\* The thread `i` of tab `t` ends: by leaving the loop, by `return`, or by
\* a panic.
ThreadEnds(t, i) ==
    /\ listeners' = [listeners EXCEPT ![t] = @ - 1]
    /\ listener_threads' = [listener_threads EXCEPT ![t] =
           [j \in 1 .. MaxListeners |->
               IF j < i THEN @[j]
               ELSE IF j < MaxListeners THEN @[j + 1] ELSE ThreadStart]]

\* After the arm: the sleep, then the test of the loop.
ThreadAfter(state, k) ==
    IF k < Len(ArmWrites(state))
       THEN [pc |-> "arm", state |-> state, k |-> k + 1]
       ELSE ThreadStart

ThreadAt(t, i, pc) ==
    /\ i \in 1 .. listeners[t]
    /\ listener_threads[t][i].pc = pc

\* `.as_mut().unwrap()` on the port of a Serial whose handle was taken.
ThreadPanics(t, i, call) ==
    /\ ThreadEnds(t, i)
    /\ message_tx' = <<>>
    /\ last_op' = Op("panic", t, call)
    /\ UNCHANGED <<is_running, timers_and_phases, port_vars>>

ListenerTestIgnoresFlag(t, i) ==
    /\ ThreadAt(t, i, "test")
    /\ ThreadGoes(t, i, [ThreadStart EXCEPT !.pc = "poll"])
    /\ message_tx' = <<>>
    /\ last_op' = Op("listener_test", t, "")
    /\ UNCHANGED <<is_running, protocol, serial, timers_and_phases, pending,
                   registry_vars, port_vars, now, graph_vars, codec>>

\* `while is_running.load(..)`.
ListenerTest(t, i) ==
    /\ ThreadAt(t, i, "test")
    /\ IF is_running[t]
          THEN ThreadGoes(t, i, [ThreadStart EXCEPT !.pc = "poll"])
          ELSE ThreadEnds(t, i)
    /\ message_tx' = <<>>
    /\ last_op' = Op("listener_test", t, "")
    /\ UNCHANGED <<is_running, protocol, serial, timers_and_phases, pending,
                   registry_vars, port_vars, now, graph_vars, codec>>

\* `port.lock().unwrap().as_mut().unwrap().bytes_to_read()` returns Ok(n).
ListenerPoll(t, i) ==
    /\ ThreadAt(t, i, "poll")
    /\ IF ~serial[t].port
          THEN ThreadPanics(t, i, "bytes_to_read")
          ELSE /\ ThreadGoes(t, i, IF Len(rx[serial[t].port_name]) # 0
                                      THEN [ThreadStart EXCEPT !.pc = "read"]
                                      ELSE ThreadStart)
               /\ message_tx' = <<>>
               /\ last_op' = Op("listener_poll", t, "")
               /\ UNCHANGED <<is_running, timers_and_phases, port_vars>>
    /\ UNCHANGED <<protocol, serial, pending, registry_vars, now, graph_vars, codec>>

\* bytes_to_read() returns Err: an error message, and the thread returns.
ListenerPollFails(t, i) ==
    /\ ThreadAt(t, i, "poll")
    /\ serial[t].port
    /\ ThreadEnds(t, i)
    /\ message_tx' = <<ReadErrorMessage(MotorName(t))>>
    /\ last_op' = Op("listener_poll_error", t, "")
    /\ UNCHANGED <<is_running, protocol, serial, timers_and_phases, pending,
                   registry_vars, port_vars, now, graph_vars, codec>>

\* `read_exact(&mut buf)` returns Ok: 3 bytes leave the receive buffer and
\* are decoded.
ListenerRead(t, i) ==
    /\ ThreadAt(t, i, "read")
    /\ IF ~serial[t].port
          THEN ThreadPanics(t, i, "read_exact")
          ELSE /\ Len(rx[serial[t].port_name]) >= 3
               /\ LET p == serial[t].port_name
                      state == StepperStateFrom(SubSeq(rx[p], 1, 3))
                  IN  /\ rx' = [rx EXCEPT ![p] = SubSeq(@, 4, Len(@))]
                      /\ ThreadGoes(t, i, ThreadAfter(state, 0))
               /\ message_tx' = <<>>
               /\ last_op' = Op("listener_read", t, "")
               /\ UNCHANGED <<is_running, timers_and_phases, wire>>
    /\ UNCHANGED <<protocol, serial, pending, registry_vars, now, graph_vars, codec>>

\* read_exact returns Err (an I/O error, or the timeout of the port when 3
\* bytes have not arrived): an error message, and the thread returns.
ListenerReadFails(t, i) ==
    /\ ThreadAt(t, i, "read")
    /\ serial[t].port
    /\ ThreadEnds(t, i)
    /\ message_tx' = <<ReadErrorMessage(<<"Port: ", MotorName(t)>>)>>
    /\ last_op' = Op("listener_read_error", t, "")
    /\ UNCHANGED <<is_running, protocol, serial, timers_and_phases, pending,
                   registry_vars, port_vars, now, graph_vars, codec>>

\* The next statement of the arm of the decoded state.
ListenerArm(t, i) ==
    /\ ThreadAt(t, i, "arm")
    /\ LET th == listener_threads[t][i]
           w == ArmWrites(th.state)[th.k]
       IN  IF w = "clear" /\ ~serial[t].port
              THEN ThreadPanics(t, i, "clear")
              ELSE /\ ThreadGoes(t, i, ThreadAfter(th.state, th.k))
                   /\ timers_and_phases' = [timers_and_phases EXCEPT ![t] =
                          ArmWrite(@, w, th.state, now)]
                   /\ message_tx' = IF w = "message" THEN DispatchMessages(th.state, t)
                                    ELSE <<>>
                   /\ is_running' = [is_running EXCEPT ![t] = IF w = "store" THEN FALSE ELSE @]
                   /\ rx' = IF w = "clear"
                               THEN [rx EXCEPT ![serial[t].port_name] = <<>>] ELSE rx
                   /\ last_op' = Op("listener_arm", t, w)
                   /\ UNCHANGED wire
    /\ UNCHANGED <<protocol, serial, pending, registry_vars, now, graph_vars, codec>>

\* A step of the listener thread `i` of tab `t`.
ListenerStep(t, i) ==
    \/ ListenerTest(t, i)
    \/ ListenerPoll(t, i)
    \/ ListenerPollFails(t, i)
    \/ ListenerRead(t, i)
    \/ ListenerReadFails(t, i)
    \/ ListenerArm(t, i)

\* The device sends some bytes of a code: what has arrived of it stays in
\* the receive buffer.
DeviceSendBytes(p, bytes) ==
    /\ p \in PortsHeld
    /\ Len(rx[p]) + Len(bytes) <= 3 * MaxRxCodes
    /\ rx' = [rx EXCEPT ![p] = @ \o bytes]
    /\ message_tx' = <<>>
    /\ last_op' = Op("device", 0, "")
    /\ UNCHANGED <<motor_vars, registry_vars, wire, now, graph_vars, codec, listener_threads>>

(***************************************************************************)
(* Initial states and specifications.                                      *)
(***************************************************************************)
\* CellSpinner after its first frame: one tab, nothing connected.
Init ==
    /\ added_tabs = {1}
    /\ absolute_tab_counter = 1
    /\ motor_keys = {1}
    /\ is_running = [t \in TabIds |-> FALSE]
    /\ protocol = [t \in TabIds |-> ProtocolDefault]
    /\ serial = [t \in TabIds |-> SerialDefault]
    /\ timers_and_phases = [t \in TabIds |-> TimersAndPhasesDefault]
    /\ listeners = [t \in TabIds |-> 0]
    /\ pending = [t \in TabIds |-> <<>>]
    /\ selected_port = [t \in TabIds |-> IF t = 1 THEN SystemPorts[1] ELSE NoPort]
    /\ available_ports = SystemPorts
    /\ promise_serial_connect = [t \in TabIds |-> IF t = 1 THEN "None" ELSE "absent"]
    /\ already_connected_ports = <<>>
    /\ conn = [t \in TabIds |-> ConnIdle]
    /\ rx = [p \in Ports |-> <<>>]
    /\ wire = [p \in Ports |-> NoWrite]
    /\ now = 0
    /\ message_tx = <<>>
    /\ last_op = Op("init", 0, "")
    /\ points = [a \in Axes |-> <<>>]
    /\ thread_index = [a \in Axes |-> 0]
    /\ tasks = [a \in Axes |-> {}]
    /\ codec = CodecIdle
    /\ listener_threads = [t \in TabIds |-> [i \in 1 .. MaxListeners |-> ThreadStart]]

\* What a device answers to the handshake: the acknowledgement, a sequence
\* that is no code, or a code left over from a run.
HandshakeCodes == {Ok, GarbageCode, <<"f", "i", "n">>}

Next ==
    \/ OnAdd
    \/ \E t \in TabIds :
        \/ OnClose(t)
        \/ ClickRefresh(t)
        \/ \E p \in Ports : SelectPort(t, p)
        \/ ClickConnect(t)
        \/ ConnOpen(t)
        \/ ConnOpenError(t)
        \/ ConnWriteBye(t)
        \/ ConnClear(t)
        \/ ConnWriteHi(t)
        \/ ConnRead(t)
        \/ ConnIoError(t)
        \/ ConnPush(t)
        \/ ConnInsert(t)
        \/ ClickDisconnect(t)
        \/ EmergencyStop(t)
        \/ \E i \in 1 .. MaxPending : WriterThread(t, i)
    \/ \E p \in Ports : DeviceSend(p, Ok)

\* The registry of tabs and connections, with devices that acknowledge and
\* motors that are not started.
Spec == Init /\ [][Next]_vars

\* One tab connecting, with a device that answers anything.
NextHandshake ==
    \/ ClickRefresh(1)
    \/ \E p \in Ports : SelectPort(1, p)
    \/ ClickConnect(1)
    \/ ConnOpen(1)
    \/ ConnOpenError(1)
    \/ ConnWriteBye(1)
    \/ ConnClear(1)
    \/ ConnWriteHi(1)
    \/ ConnRead(1)
    \/ ConnIoError(1)
    \/ ConnPush(1)
    \/ ConnInsert(1)
    \/ ClickDisconnect(1)
    \/ \E p \in Ports, code \in HandshakeCodes : DeviceSendUpTo(p, code, MaxReplies)

SpecHandshake == Init /\ [][NextHandshake]_vars

\* One motor, connected on the first port: the state after a successful
\* connection of the first tab.
InitSession ==
    /\ added_tabs = {1}
    /\ absolute_tab_counter = 1
    /\ motor_keys = {1}
    /\ is_running = [t \in TabIds |-> FALSE]
    /\ protocol = [t \in TabIds |-> ProtocolDefault]
    /\ serial = [t \in TabIds |->
                    IF t = 1 THEN [port_name |-> SystemPorts[1], port |-> TRUE]
                    ELSE SerialDefault]
    /\ timers_and_phases = [t \in TabIds |-> TimersAndPhasesDefault]
    /\ listeners = [t \in TabIds |-> 0]
    /\ pending = [t \in TabIds |-> <<>>]
    /\ selected_port = [t \in TabIds |-> IF t = 1 THEN SystemPorts[1] ELSE NoPort]
    /\ available_ports = SystemPorts
    /\ promise_serial_connect = [t \in TabIds |-> IF t = 1 THEN "None" ELSE "absent"]
    /\ already_connected_ports = <<SystemPorts[1]>>
    /\ conn = [t \in TabIds |-> ConnIdle]
    /\ rx = [p \in Ports |-> <<>>]
    /\ wire = [p \in Ports |-> NoWrite]
    /\ now = 0
    /\ message_tx = <<>>
    /\ last_op = Op("init", 0, "")
    /\ points = [a \in Axes |-> <<>>]
    /\ thread_index = [a \in Axes |-> 0]
    /\ tasks = [a \in Axes |-> {}]
    /\ codec = CodecIdle
    /\ listener_threads = [t \in TabIds |-> [i \in 1 .. MaxListeners |-> ThreadStart]]

\* The runs of one motor with a device that sends any telemetry.
NextSession ==
    \/ EditProtocol(1, RunnableProtocol)
    \/ ClickRun(1)
    \/ ClickStop(1)
    \/ ListenerExit(1)
    \/ ListenerIdle(1)
    \/ ListenerPollError(1)
    \/ ListenerReadError(1)
    \/ ListenerDispatch(1)
    \/ \E i \in 1 .. MaxPending : WriterThread(1, i)
    \/ \E code \in TelemetryCodes \cup {GarbageCode} : DeviceSend(SystemPorts[1], code)
    \/ Tick

SpecSession == InitSession /\ [][NextSession]_vars

\* The starts, stops and closing of one motor's tab, for any protocol the
\* user sets, with a device that reports the end of a run.
NextStart ==
    \/ \E p \in ProtocolInputs : EditProtocol(1, p)
    \/ ClickRun(1)
    \/ ClickStop(1)
    \/ ListenerExit(1)
    \/ ListenerIdle(1)
    \/ ListenerDispatch(1)
    \/ \E i \in 1 .. MaxPending : WriterThread(1, i)
    \/ DeviceSend(SystemPorts[1], <<"f", "i", "n">>)
    \/ Tick
    \/ OnClose(1)

SpecStart == InitSession /\ [][NextStart]_vars

\* The imports of configuration files into one motor, between its edits
\* and its runs.
NextImport ==
    \/ \E p \in ImportInputs : ImportConfiguration(1, p)
    \/ EditProtocol(1, RunnableProtocol)
    \/ ClickRun(1)
    \/ ClickStop(1)
    \/ \E i \in 1 .. MaxPending : WriterThread(1, i)

SpecImport == InitSession /\ [][NextImport]_vars

\* The conversions, each applied to any of its inputs.
NextCodec ==
    \/ \E p \in EncodeInputs : Encode(p)
    \/ \E b1 \in CodeBytes, b2 \in CodeBytes, b3 \in CodeBytes :
           DecodeTelemetry(<<b1, b2, b3>>)
    \/ \E r \in AxisInputs : MaxRpm(r)
    \/ ConvertReturn

SpecCodec == Init /\ [][NextCodec]_vars

\* What the device sends in the runs of SpecInvalid: a sequence that is no
\* code, the start of the rotation and the end of the run.
InvalidRunCodes == {GarbageCode, <<"s", "t", "r">>, <<"f", "i", "n">>}

\* The runs of one motor whose device also sends sequences that are no
\* code, the receive buffer holding up to MaxReplies codes.
NextInvalid ==
    \/ EditProtocol(1, RunnableProtocol)
    \/ ClickRun(1)
    \/ ClickStop(1)
    \/ ListenerExit(1)
    \/ ListenerIdle(1)
    \/ ListenerDispatch(1)
    \/ \E i \in 1 .. MaxPending : WriterThread(1, i)
    \/ \E code \in InvalidRunCodes : DeviceSendUpTo(SystemPorts[1], code, MaxReplies)

\* The listener threads are scheduled: an iteration that can run does run.
SpecInvalid ==
    /\ InitSession
    /\ [][NextInvalid]_vars
    /\ WF_vars(ListenerDispatch(1))
    /\ WF_vars(ListenerExit(1))

\* The edits of one motor's parameters, the imports and the runs.
NextEdit ==
    \/ \E a \in Axes :
        \/ \E v \in RpmInputs : SetRpm(1, a, v)
        \/ \E v \in AccelerationInputs : SetAcceleration(1, a, v)
        \/ \E mode \in StepModeInputs : SetStepMode(1, a, mode)
        \/ SetCycleDuration(1, a, 1)
        \/ SetPhaseDuration(1, a, 1)
    \/ \E p \in EditImportInputs : ImportConfiguration(1, p)
    \/ ClickRun(1)
    \/ ClickStop(1)
    \/ \E i \in 1 .. MaxPending : WriterThread(1, i)

SpecEdit == InitSession /\ [][NextEdit]_vars

\* What the device sends in the runs of SpecThreads: the end of a run, a
\* phase of each kind and a sequence that is no code, whole or in two parts.
ThreadCodes == {<<"f", "i", "n">>, <<"o", "s", "r">>, <<"s", "t", "r">>, GarbageCode}
PartialCodes == {<<"f">>, <<"i", "n">>}

\* One motor with its listener threads taken step by step, next to the
\* buttons of its tab and the writer threads.
NextThreads ==
    \/ EditProtocol(1, RunnableProtocol)
    \/ ClickRun(1)
    \/ ClickStop(1)
    \/ ClickDisconnect(1)
    \/ \E i \in 1 .. MaxListeners : ListenerStep(1, i)
    \/ \E i \in 1 .. MaxPending : WriterThread(1, i)
    \/ \E bytes \in ThreadCodes \cup PartialCodes : DeviceSendBytes(SystemPorts[1], bytes)

SpecThreads == InitSession /\ [][NextThreads]_vars

\* What the device sends in the runs of SpecCancel: a phase, and the end
\* of a run in two parts.
CancelCodes == {<<"o", "s", "r">>} \cup PartialCodes

NextCancel ==
    \/ EditProtocol(1, RunnableProtocol)
    \/ ClickRun(1)
    \/ ClickStop(1)
    \/ ClickDisconnect(1)
    \/ \E i \in 1 .. MaxListeners : ListenerStep(1, i)
    \/ \E i \in 1 .. MaxPending : WriterThread(1, i)
    \/ \E bytes \in CancelCodes : DeviceSendBytes(SystemPorts[1], bytes)

\* The listener threads are scheduled, and a call of the port returns (with
\* its result, or with an error at the timeout of the port): a thread that
\* is live takes its next step.
SpecCancel ==
    /\ InitSession
    /\ [][NextCancel]_vars
    /\ \A i \in 1 .. MaxListeners : WF_vars(ListenerStep(1, i))

\* Two tabs, each with a motor connected on its own port: the state after
\* the connection of the first tab, on_add and the connection of the second.
InitSessions ==
    /\ added_tabs = {1, 2}
    /\ absolute_tab_counter = 2
    /\ motor_keys = {1, 2}
    /\ is_running = [t \in TabIds |-> FALSE]
    /\ protocol = [t \in TabIds |-> ProtocolDefault]
    /\ serial = [t \in TabIds |-> [port_name |-> SystemPorts[t], port |-> TRUE]]
    /\ timers_and_phases = [t \in TabIds |-> TimersAndPhasesDefault]
    /\ listeners = [t \in TabIds |-> 0]
    /\ pending = [t \in TabIds |-> <<>>]
    /\ selected_port = [t \in TabIds |-> SystemPorts[t]]
    /\ available_ports = <<SystemPorts[2]>>
    /\ promise_serial_connect = [t \in TabIds |-> "None"]
    /\ already_connected_ports = SystemPorts
    /\ conn = [t \in TabIds |-> ConnIdle]
    /\ rx = [p \in Ports |-> <<>>]
    /\ wire = [p \in Ports |-> "hi?"]
    /\ now = 0
    /\ message_tx = <<>>
    /\ last_op = Op("init", 0, "")
    /\ points = [a \in Axes |-> <<>>]
    /\ thread_index = [a \in Axes |-> 0]
    /\ tasks = [a \in Axes |-> {}]
    /\ codec = CodecIdle
    /\ listener_threads = [t \in TabIds |-> [i \in 1 .. MaxListeners |-> ThreadStart]]

\* The runs of two motors, their disconnections and the emergency stop.
NextEmergency ==
    \E t \in TabIds :
        \/ EditProtocol(t, RunnableProtocol)
        \/ ClickRun(t)
        \/ ClickStop(t)
        \/ ListenerExit(t)
        \/ ListenerDispatch(t)
        \/ \E i \in 1 .. MaxPending : WriterThread(t, i)
        \/ DeviceSend(SystemPorts[t], <<"f", "i", "n">>)
        \/ ClickDisconnect(t)
        \/ EmergencyStop(t)

SpecEmergency == InitSessions /\ [][NextEmergency]_vars

\* The imports into one motor and into all, with two motors that run and
\* stop.
NextImportAll ==
    \E t \in TabIds :
        \/ EditProtocol(t, RunnableProtocol)
        \/ ClickRun(t)
        \/ ClickStop(t)
        \/ ListenerExit(t)
        \/ \E i \in 1 .. MaxPending : WriterThread(t, i)
        \/ \E p \in EditImportInputs : ImportConfiguration(t, p)
        \/ \E p \in EditImportInputs : ImportConfigurationForAll(t, p)

SpecImportAll == InitSessions /\ [][NextImportAll]_vars

\* What the device sends in the runs of SpecMessages: the acknowledgement,
\* a sequence that is no code, the end of a run and a fault.
MessageCodes == {Ok, GarbageCode, <<"f", "i", "n">>, <<"e", "r", "1">>}

\* One tab from its connection to its runs: every step that sends a
\* message on the event channel.
NextMessages ==
    \/ ClickRefresh(1)
    \/ ClickConnect(1)
    \/ ConnOpen(1)
    \/ ConnOpenError(1)
    \/ ConnWriteBye(1)
    \/ ConnClear(1)
    \/ ConnWriteHi(1)
    \/ ConnRead(1)
    \/ ConnIoError(1)
    \/ ConnPush(1)
    \/ ConnInsert(1)
    \/ ClickDisconnect(1)
    \/ EmergencyStop(1)
    \/ EditProtocol(1, RunnableProtocol)
    \/ ClickRun(1)
    \/ ClickStop(1)
    \/ ListenerExit(1)
    \/ ListenerIdle(1)
    \/ ListenerPollError(1)
    \/ ListenerReadError(1)
    \/ ListenerDispatch(1)
    \/ \E i \in 1 .. MaxPending : WriterThread(1, i)
    \/ \E code \in MessageCodes : DeviceSend(SystemPorts[1], code)

SpecMessages == Init /\ [][NextMessages]_vars

NextGraph ==
    \/ \E a \in Axes, input \in GraphInputs : GraphStep(GenerateGraph(a, input))
    \/ \E a \in Axes : \E k \in tasks[a] :
        \/ GraphStep(TaskClear(a, k))
        \/ GraphStep(TaskLen(a, k))
        \/ GraphStep(TaskCheck(a, k))
        \/ GraphStep(TaskPush(a, k))

SpecGraph == Init /\ [][NextGraph]_vars

(***************************************************************************)
(* Properties of the listener's dispatch.                                  *)
(***************************************************************************)
Dispatched(t, states) ==
    last_op.op = "dispatch" /\ last_op.tab = t /\ last_op.arg \in states

\* C1: when the listener dispatches a fault event (emergency stop, open
\* load, over current, over heat, either step-generation error), the state
\* that results has is_running false, phase and global_phase equal to the
\* fault, both phase timers None, stop_time_ms equal to the time elapsed
\* since start_time, and exactly one Error message with the fault's text and
\* the motor's name sent.
C1_FaultDispatch ==
    \A t \in TabIds :
        Dispatched(t, FaultStates) =>
            LET tp == timers_and_phases[t] IN
            /\ ~is_running[t]
            /\ tp.phase = last_op.arg
            /\ tp.global_phase = last_op.arg
            /\ tp.phase_start_time = None
            /\ tp.global_phase_start_time = None
            /\ tp.start_time # None
            /\ tp.stop_time_ms = now - tp.start_time
            /\ Len(message_tx) = 1
            /\ message_tx[1].kind = "Error"
            /\ message_tx[1].message = StepperStateToString(last_op.arg)
            /\ message_tx[1].origin = MotorName(t)

\* A fault dispatched one tick after the start, after the phases were set.
C1_Witness ==
    /\ Dispatched(1, {"OverHeat"})
    /\ timers_and_phases[1].phase = "OverHeat"
    /\ timers_and_phases[1].stop_time_ms = 1
    /\ message_tx[1].message = "Over heat"

\* C2: in a run, the dispatch of `str` sets global_phase to StartRotation
\* with a start timestamp, the dispatch of `stp` sets phase to
\* StartPauseRotation, and after the dispatch of `fin`, whatever was
\* dispatched before it, phase and global_phase are Finished with no timers,
\* the stop time is recorded, is_running is false and a Success message has
\* been sent.
C2_FinishDispatch ==
    \A t \in TabIds :
        LET tp == timers_and_phases[t] IN
        /\ Dispatched(t, {"StartRotation"}) =>
              tp.global_phase = "StartRotation" /\ tp.global_phase_start_time = now
        /\ Dispatched(t, {"StartPauseRotation"}) =>
              tp.phase = "StartPauseRotation" /\ tp.phase_start_time = now
        /\ Dispatched(t, {"Finished"}) =>
              /\ tp.phase = "Finished" /\ tp.global_phase = "Finished"
              /\ tp.phase_start_time = None /\ tp.global_phase_start_time = None
              /\ tp.start_time # None /\ tp.stop_time_ms = now - tp.start_time
              /\ ~is_running[t]
              /\ message_tx = <<Message("Success", "Idle", NoError, MotorName(t))>>

\* `fin` dispatched one tick after the start.
C2_Witness ==
    /\ Dispatched(1, {"Finished"})
    /\ ~is_running[1]
    /\ timers_and_phases[1].stop_time_ms = 1
    /\ timers_and_phases[1].global_phase = "Finished"
    /\ Len(message_tx) = 1 /\ message_tx[1].kind = "Success"

\* C3: the dispatch of `ok!` or of a 3-byte sequence that is no code leaves
\* phase, global_phase, both phase timers, both directions, start_time,
\* stop_time_ms and is_running as they were: such a code never stops the
\* motor.
C3_AckInvalidFrame ==
    [][\A t \in TabIds :
          (last_op'.op = "dispatch" /\ last_op'.tab = t
              /\ last_op'.arg \in {"CommandReceived", "Invalid"})
          => /\ timers_and_phases'[t] = timers_and_phases[t]
             /\ is_running'[t] = is_running[t]
             /\ message_tx' = <<>>]_vars

\* A sequence that is no code dispatched in the middle of a rotation: the
\* motor is still running and the phases are those of before.
C3_Witness ==
    /\ Dispatched(1, {"Invalid"})
    /\ is_running[1]
    /\ timers_and_phases[1].phase = "OscillationRotation"
    /\ timers_and_phases[1].global_phase = "StartRotation"
    /\ timers_and_phases[1].stop_time_ms = None

(***************************************************************************)
(* Properties of start_motor and of on_close.                              *)
(***************************************************************************)
\* C4: start_motor on a protocol whose rotation and agitation durations are
\* both 0 after the normalization is rejected with the zero-duration error
\* message: is_running stays false, no listener is spawned and no buffer is
\* handed to a writer thread or written to the device.
C4_ZeroDurationRejected ==
    [][\A t \in TabIds :
          (/\ ClickRun(t)
           /\ Normalize(protocol[t]).rotation_duration_ms = 0
           /\ Normalize(protocol[t]).agitation_duration_ms = 0)
          => /\ ~is_running'[t]
             /\ listeners'[t] = listeners[t]
             /\ pending'[t] = pending[t]
             /\ wire' = wire
             /\ message_tx' = <<ZeroDurationMessage(t)>>]_vars

\* A rejected start of a protocol with cycles but no duration to run.
C4_Witness ==
    /\ message_tx = <<ZeroDurationMessage(1)>>
    /\ ~is_running[1]
    /\ listeners[1] = 0
    /\ pending[1] = <<>>
    /\ protocol[1].rotation.duration_of_one_direction_cycle_ms = 1
    /\ protocol[1].rotation_duration_ms = 0
    /\ protocol[1].agitation_duration_ms = 0

\* C14: after the normalization of a start, rejected or not, the stored
\* protocol has a phase duration of 0 for each axis whose cycle duration
\* plus pause before reverse is 0, pause_pre_agitation_ms = 0 when the
\* rotation duration is 0 and pause_post_agitation_ms = 0 when the agitation
\* duration is 0; and when the start proceeds, every field that these rules
\* do not force to 0 is the one of before.
C14_Normalized ==
    [][\A t \in TabIds :
          ClickRun(t) =>
             LET p == protocol[t]
                 q == protocol'[t]
             IN  /\ get_min_duration(q.rotation) = 0 => q.rotation_duration_ms = 0
                 /\ get_min_duration(q.agitation) = 0 => q.agitation_duration_ms = 0
                 /\ q.rotation_duration_ms = 0 => q.pause_pre_agitation_ms = 0
                 /\ q.agitation_duration_ms = 0 => q.pause_post_agitation_ms = 0
                 /\ is_running'[t] =>
                       /\ q.rotation = p.rotation /\ q.agitation = p.agitation
                       /\ q.global_duration_ms = p.global_duration_ms
                       /\ get_min_duration(p.rotation) # 0 =>
                              q.rotation_duration_ms = p.rotation_duration_ms
                       /\ get_min_duration(p.agitation) # 0 =>
                              q.agitation_duration_ms = p.agitation_duration_ms
                       /\ q.rotation_duration_ms # 0 =>
                              q.pause_pre_agitation_ms = p.pause_pre_agitation_ms
                       /\ q.agitation_duration_ms # 0 =>
                              q.pause_post_agitation_ms = p.pause_post_agitation_ms]_vars

\* A started motor whose agitation, with no cycle and no pause, was given a
\* duration and a pause after it: both are 0 now, the rotation's are kept.
C14_Witness ==
    /\ is_running[1]
    /\ get_min_duration(protocol[1].agitation) = 0
    /\ protocol[1].agitation_duration_ms = 0
    /\ protocol[1].pause_post_agitation_ms = 0
    /\ protocol[1].rotation_duration_ms = 1
    /\ protocol[1].pause_pre_agitation_ms = 1
    /\ protocol[1].global_duration_ms = 1

C16_StartClearsPhases ==
    [][\A t \in TabIds :
          (ClickRun(t) /\ is_running'[t]) =>
             LET tp == timers_and_phases'[t] IN
             /\ tp.phase = StepperStateDefault
             /\ tp.global_phase = StepperStateDefault
             /\ tp.phase_start_time = None
             /\ tp.global_phase_start_time = None]_vars

\* C17: stop_motor, with no dispatch of the listener under way, hands the
\* stop command to the transport, sets is_running false, sets phase and
\* global_phase idle with both phase timers None, and records in
\* stop_time_ms the time elapsed since start_time.
C17_Stop ==
    [][\A t \in TabIds :
          ClickStop(t) =>
             LET tp == timers_and_phases'[t] IN
             /\ pending'[t] = Append(pending[t], StopCommand)
             /\ ~is_running'[t]
             /\ tp.phase = StepperStateDefault
             /\ tp.global_phase = StepperStateDefault
             /\ tp.phase_start_time = None
             /\ tp.global_phase_start_time = None
             /\ timers_and_phases[t].start_time # None
             /\ tp.start_time = timers_and_phases[t].start_time
             /\ tp.stop_time_ms = now - tp.start_time]_vars

\* A motor stopped one tick after its start.
C17_Witness ==
    /\ message_tx = <<StoppedMessage(1)>>
    /\ ~is_running[1]
    /\ timers_and_phases[1].start_time = 0
    /\ timers_and_phases[1].stop_time_ms = 1
    /\ timers_and_phases[1].global_phase = StepperStateDefault
    /\ StopCommand \in Range(pending[1])

Opposite(direction) == IF direction = "Forward" THEN "Backward" ELSE "Forward"

\* C18: the dispatch of `osr` (of `osa`) reverses the stored direction of
\* the rotation (of the agitation), leaves the direction of the other axis
\* as it was, and sets phase to the oscillation state with phase_start_time
\* now; so after n such events the direction is the initial one for n even
\* and its opposite for n odd.
C18_OscillationFlips ==
    [][\A t \in TabIds :
          LET tp == timers_and_phases[t]
              tq == timers_and_phases'[t]
          IN  /\ (last_op'.op = "dispatch" /\ last_op'.tab = t
                     /\ last_op'.arg = "OscillationRotation")
                  => /\ tq.rotation_direction = Opposite(tp.rotation_direction)
                     /\ tq.agitation_direction = tp.agitation_direction
                     /\ tq.phase = "OscillationRotation" /\ tq.phase_start_time = now
              /\ (last_op'.op = "dispatch" /\ last_op'.tab = t
                     /\ last_op'.arg = "OscillationAgitation")
                  => /\ tq.agitation_direction = Opposite(tp.agitation_direction)
                     /\ tq.rotation_direction = tp.rotation_direction
                     /\ tq.phase = "OscillationAgitation"
                     /\ tq.phase_start_time = now]_vars

PauseStates == {"StartPauseRotation", "StartPausePreAgitation", "StartPauseAgitation",
                "StartPausePostAgitation"}

\* C19: the dispatch of `str` or `sta` sets global_phase and
\* global_phase_start_time and leaves phase and phase_start_time as they
\* were; the dispatch of one of the four pause events sets phase and
\* phase_start_time and leaves global_phase and global_phase_start_time as
\* they were; none of them changes is_running, start_time or stop_time_ms.
C19_PhaseFrames ==
    [][\A t \in TabIds :
          LET tp == timers_and_phases[t]
              tq == timers_and_phases'[t]
              dispatched == last_op'.op = "dispatch" /\ last_op'.tab = t
          IN  /\ (dispatched /\ last_op'.arg \in {"StartRotation", "StartAgitation"})
                  => /\ tq.global_phase = last_op'.arg
                     /\ tq.global_phase_start_time = now
                     /\ tq.phase = tp.phase
                     /\ tq.phase_start_time = tp.phase_start_time
              /\ (dispatched /\ last_op'.arg \in PauseStates)
                  => /\ tq.phase = last_op'.arg
                     /\ tq.phase_start_time = now
                     /\ tq.global_phase = tp.global_phase
                     /\ tq.global_phase_start_time = tp.global_phase_start_time
              /\ (dispatched /\ last_op'.arg \in {"StartRotation", "StartAgitation"}
                                                 \cup PauseStates)
                  => /\ is_running'[t] = is_running[t]
                     /\ tq.start_time = tp.start_time
                     /\ tq.stop_time_ms = tp.stop_time_ms]_vars

\* The pause before the agitation dispatched one tick after the rotation
\* began: the main phase and its timer are those of the rotation.
C19_Witness ==
    /\ Dispatched(1, {"StartPausePreAgitation"})
    /\ is_running[1]
    /\ timers_and_phases[1].phase = "StartPausePreAgitation"
    /\ timers_and_phases[1].phase_start_time = 1
    /\ timers_and_phases[1].global_phase = "StartRotation"
    /\ timers_and_phases[1].global_phase_start_time = 0
    /\ timers_and_phases[1].stop_time_ms = None

\* C20: when bytes_to_read or read_exact of the listener returns an I/O
\* error, the listener sets is_running false, marks the phases as faulted,
\* sends an error message and ends.
C20_ListenerIoError ==
    [][\A t \in TabIds :
          (ListenerPollError(t) \/ ListenerReadError(t)) =>
             /\ ~is_running'[t]
             /\ timers_and_phases'[t].phase \in FaultStates \cup {"Invalid"}
             /\ timers_and_phases'[t].global_phase \in FaultStates \cup {"Invalid"}
             /\ Len(message_tx') = 1 /\ message_tx'[1].kind = "Error"
             /\ listeners'[t] = listeners[t] - 1
             /\ serial'[t] = serial[t]]_vars

\* C6: closing the tab of a running motor is rejected: the motor stays in
\* the map, connected and running, and only the warning is sent; a motor
\* leaves the map only when it is not running.
C6_RunningNotRemoved ==
    [][\A t \in TabIds :
          /\ (OnClose(t) /\ is_running[t])
             => /\ UNCHANGED <<motor_vars, registry_vars, port_vars>>
                /\ message_tx' = <<RunningWarning(t)>>
          /\ (t \in motor_keys /\ t \notin motor_keys') => ~is_running[t]]_vars

\* The warning sent for a running, connected motor that is still in the map.
C6_Witness ==
    /\ message_tx = <<RunningWarning(1)>>
    /\ is_running[1]
    /\ serial[1].port
    /\ 1 \in motor_keys /\ 1 \in added_tabs

(***************************************************************************)
(* Properties of the connection and of the list of connected ports.        *)
(***************************************************************************)
\* C5: a connection to a port whose name is already in
\* already_connected_ports is refused, so that for every interleaving of
\* connection attempts the list never holds the same port name twice.
C5_NoDuplicatePort ==
    \A i, j \in 1 .. Len(already_connected_ports) :
        i # j => already_connected_ports[i] # already_connected_ports[j]

HandshakeOrder == <<"bye!", "clear", "hi?", "read">>

IsPrefix(s, w) == Len(s) <= Len(w) /\ s = SubSeq(w, 1, Len(s))

\* C7: the handshake is bounded. While it reads, fewer than 10 replies have
\* mismatched; a reply equal to "ok!" ends it with success at once; a
\* mismatching reply that is not the 10th leads to one more read; the 10th
\* mismatching reply ends it with the error of a device that did not
\* respond, after which the thread reads nothing more.
C7_HandshakeBounded ==
    [][\A t \in TabIds :
          /\ conn'[t].pc = "read" => conn'[t].counter < HANDSHAKE_RETRIES
          /\ ConnRead(t) =>
                LET buf == SubSeq(rx[conn[t].port], 1, 3)
                    mismatches == conn[t].counter + 1
                IN  /\ buf = Ok => conn'[t].pc = "push"
                    /\ (buf # Ok /\ mismatches < HANDSHAKE_RETRIES) =>
                          conn'[t].pc = "read" /\ conn'[t].counter = mismatches
                    /\ (buf # Ok /\ mismatches = HANDSHAKE_RETRIES) =>
                          /\ conn'[t] = ConnIdle
                          /\ promise_serial_connect'[t] = "None"
                          /\ message_tx' =
                                 <<ConnectErrorMessage(t, conn[t].port, RetriesError)>>]_vars

\* The failure after the 10th mismatching reply.
C7_Witness ==
    /\ \E p \in Ports : message_tx = <<ConnectErrorMessage(1, p, RetriesError)>>
    /\ conn[1].pc = "idle"
    /\ promise_serial_connect[1] = "None"
    /\ ~serial[1].port

\* C8: in every handshake "bye!" is written first, then the buffers are
\* cleared, then "hi?" is written, and only then is a reply read: the
\* handshake succeeds only on a reply read after "hi?" was written.
C8_HandshakeOrder ==
    \A t \in TabIds :
        /\ IsPrefix(conn[t].io, HandshakeOrder)
        /\ conn[t].pc = "read" => wire[conn[t].port] = "hi?"
        /\ conn[t].pc \in {"push", "insert"} => conn[t].io = HandshakeOrder

\* A handshake that has succeeded on its third reply.
C8_Witness ==
    /\ conn[1].pc = "push"
    /\ conn[1].counter = 2
    /\ conn[1].io = HandshakeOrder

(***************************************************************************)
(* Properties of the generation of the graph points.                       *)
(***************************************************************************)
AllDone(a) == \A k \in tasks[a] : k.pc = "done"

\* C9: after two calls of generate_graph_* on an axis, once both tasks have
\* ended, the axis's buffer holds exactly the points of the second call.
C9_SecondCallOnly ==
    \A a \in Axes :
        (thread_index[a] = 2 /\ AllDone(a)) =>
            LET k == TaskOf(a, 2) IN
            points[a] = GraphOutput(2, [duration_ms |-> k.duration_ms, delays |-> k.delays])

\* C10: at every moment the points of an axis's buffer were all appended by
\* one generation of the task.
C10_OneGeneration ==
    \A a \in Axes :
        \A i, j \in 1 .. Len(points[a]) : points[a][i].gen = points[a][j].gen

\* C11: in every state the number of points in each axis's buffer is at
\* most MAX_POINTS_GRAPHS, however many steps the simulated sequence has.
C11_PointCeiling ==
    \A a \in Axes : Len(points[a]) <= MAX_POINTS_GRAPHS

(***************************************************************************)
(* Properties of import_protocol.                                          *)
(***************************************************************************)
\* C12: an import that returns an error leaves the motor as it was: every
\* field of the stored protocol, global_duration_ms included, has the value
\* it had before the call, whatever the rejected protocol.
C12_RejectedImportKeepsState ==
    [][\A t \in TabIds :
          (/\ last_op'.op = "import" /\ last_op'.tab = t
           /\ message_tx'[1].kind = "Error")
          => /\ protocol'[t] = protocol[t]
             /\ UNCHANGED <<is_running, serial, timers_and_phases, listeners, pending,
                            graph_vars, codec, listener_threads>>]_vars

\* C13: an import is rejected exactly when, on either axis, the
\* acceleration is 0, the acceleration is above MAX_ACCELERATION or the rpm
\* is above the maximum of the axis's step mode, or when one of the nine
\* duration fields is above MAX_DURATION_MS; the four rules have four
\* different errors, the error is that of the first violated rule in this
\* order, and a protocol that violates none is accepted and stored.
C13_ValidationRules ==
    \A t \in TabIds :
        (last_op.op = "import" /\ last_op.tab = t) =>
            LET p == last_op.arg
                axes == {p.rotation, p.agitation}
                durations == {p.rotation.duration_of_one_direction_cycle_ms,
                              p.rotation.pause_before_direction_change_ms,
                              p.agitation.duration_of_one_direction_cycle_ms,
                              p.agitation.pause_before_direction_change_ms,
                              p.rotation_duration_ms, p.agitation_duration_ms,
                              p.pause_pre_agitation_ms, p.pause_post_agitation_ms,
                              p.global_duration_ms}
                zero == \E r \in axes : r.acceleration = 0
                high == \E r \in axes : r.acceleration > MAX_ACCELERATION
                fast == \E r \in axes : r.rpm > MAX_RPM \div get_multiplier(r.step_mode)
                long == \E d \in durations : d > MAX_DURATION_MS
                error == IF zero THEN AccelerationZeroError
                         ELSE IF high THEN AccelerationTooHighError
                         ELSE IF fast THEN RpmTooHighError
                         ELSE DurationTooHighError
            IN  /\ Cardinality({AccelerationZeroError, AccelerationTooHighError,
                                RpmTooHighError, DurationTooHighError}) = 4
                /\ (zero \/ high \/ fast \/ long) =>
                       message_tx = <<ImportErrorMessage(t, error)>>
                /\ ~(zero \/ high \/ fast \/ long) =>
                       message_tx = <<ImportedMessage(t)>> /\ protocol[t] = p

\* An import rejected for its rpm, of a protocol that also has a duration
\* too high and an acceleration at the maximum.
C13_Witness ==
    /\ last_op.op = "import" /\ last_op.tab = 1
    /\ message_tx = <<ImportErrorMessage(1, RpmTooHighError)>>
    /\ last_op.arg.agitation.acceleration = MAX_ACCELERATION
    /\ last_op.arg.rotation.duration_of_one_direction_cycle_ms > MAX_DURATION_MS
    /\ protocol[1] # last_op.arg

(***************************************************************************)
(* Properties of the listener threads of a session.                        *)
(***************************************************************************)
\* C21: at any time at most one listener thread is live per session, also
\* when start is invoked again right after a stop, a finish or a fault,
\* before the previous listener has observed is_running = false.
C21_OneListener ==
    \A t \in TabIds : listeners[t] <= 1

(***************************************************************************)
(* Properties of the shared list of connected ports.                       *)
(***************************************************************************)
SessionHolds(p) == \E t \in motor_keys : serial[t].port /\ serial[t].port_name = p

NoConnectionInProgress == \A t \in TabIds : conn[t].pc = "idle"

\* C22: after any sequence of connect, disconnect, tab removal and
\* emergency stop operations, once no connection is in progress, a port name
\* is in already_connected_ports if and only if some session holds that port
\* open.
C22_ConnectedSet ==
    NoConnectionInProgress =>
        \A p \in Ports : p \in Range(already_connected_ports) <=> SessionHolds(p)

(***************************************************************************)
(* Properties of the conversions.                                          *)
(***************************************************************************)
\* The unsigned integer that the bytes from .. from + width - 1 of a buffer
\* hold, least significant byte first.
FieldAt(bytes, from, width) == from_le_bytes(SubSeq(bytes, from + 1, from + width))

\* The 34 bytes of an axis record at the offset `off`: rpm(4),
\* acceleration(4), step-resolution index(1), cycle duration(8), steps per
\* cycle(8), direction(1), pause before reverse(8).
AxisRecordAt(bytes, off, r) ==
    /\ FieldAt(bytes, off, 4) = r.rpm
    /\ FieldAt(bytes, off + 4, 4) = r.acceleration
    /\ bytes[off + 8 + 1] \in 0 .. 7
    /\ 2 ^ bytes[off + 8 + 1] = get_multiplier(r.step_mode)
    /\ FieldAt(bytes, off + 9, 8) = r.duration_of_one_direction_cycle_ms
    /\ FieldAt(bytes, off + 17, 8) = r.steps_for_one_direction_cycle
    /\ bytes[off + 25 + 1] = (IF r.direction = "Forward" THEN 0 ELSE 1)
    /\ FieldAt(bytes, off + 26, 8) = r.pause_before_direction_change_ms

\* C23: for every protocol, the encoded command buffer has exactly 110
\* bytes, byte 0 is 'a' and byte 109 is 'z', and the fields sit little-endian
\* at fixed offsets: the rotation record in 1..35, the rotation phase
\* duration in 35..43, the pause before agitation in 43..51, the agitation
\* record in 51..85, the agitation phase duration in 85..93, the pause after
\* agitation in 93..101, the global duration in 101..109, each axis record
\* laid out as AxisRecordAt states.
C23_CommandLayout ==
    codec.op = "bytes_vec_to_send" =>
        LET p == codec.input
            bytes == codec.output
        IN  /\ Len(bytes) = 110
            /\ \A i \in 1 .. Len(bytes) : bytes[i] \in 0 .. 255
            /\ bytes[1] = 97
            /\ bytes[110] = 122
            /\ AxisRecordAt(bytes, 1, p.rotation)
            /\ FieldAt(bytes, 35, 8) = p.rotation_duration_ms
            /\ FieldAt(bytes, 43, 8) = p.pause_pre_agitation_ms
            /\ AxisRecordAt(bytes, 51, p.agitation)
            /\ FieldAt(bytes, 85, 8) = p.agitation_duration_ms
            /\ FieldAt(bytes, 93, 8) = p.pause_post_agitation_ms
            /\ FieldAt(bytes, 101, 8) = p.global_duration_ms

\* C23 witness: a protocol is encoded whose axes differ in step mode and
\* direction and whose fields fill more than one byte.
C23_Witness ==
    /\ codec.op = "bytes_vec_to_send"
    /\ codec.input.rotation.step_mode = "M128"
    /\ codec.input.rotation.direction = "Backward"
    /\ codec.input.rotation.duration_of_one_direction_cycle_ms = MaxField
    /\ codec.input.agitation = FixedAxis
    /\ Len(codec.output) = 110
    /\ codec.output[10] = 7

\* C24: the wire encoding is exactly reversible: decoding the buffer of a
\* protocol gives the protocol back, and no other protocol encodes to the
\* same buffer.
C24_RoundTrip ==
    codec.op = "bytes_vec_to_send" =>
        /\ decode(codec.output) = codec.input
        /\ \A q \in EncodeInputs :
               bytes_vec_to_send(q) = codec.output => q = codec.input

\* C24 witness: a protocol with a backward agitation and durations of more
\* than one byte is encoded and decoded.
C24_Witness ==
    /\ codec.op = "bytes_vec_to_send"
    /\ codec.input.agitation.direction = "Backward"
    /\ codec.input.rotation_duration_ms = MaxField
    /\ decode(codec.output).agitation_duration_ms = 65535

\* The table of the telemetry codes: each code with its event.
TelemetryTable ==
    {<<<<"o", "k", "!">>, "CommandReceived">>,
     <<<<"f", "i", "n">>, "Finished">>,
     <<<<"e", "m", "r">>, "EmergencyStop">>,
     <<<<"e", "r", "1">>, "OpenLoad">>,
     <<<<"e", "r", "2">>, "OverCurrent">>,
     <<<<"e", "r", "3">>, "OverHeat">>,
     <<<<"s", "t", "r">>, "StartRotation">>,
     <<<<"s", "t", "p">>, "StartPauseRotation">>,
     <<<<"s", "t", "q">>, "StartPausePreAgitation">>,
     <<<<"s", "t", "a">>, "StartAgitation">>,
     <<<<"s", "t", "b">>, "StartPauseAgitation">>,
     <<<<"s", "t", "c">>, "StartPausePostAgitation">>,
     <<<<"o", "s", "r">>, "OscillationRotation">>,
     <<<<"o", "s", "a">>, "OscillationAgitation">>,
     <<<<"e", "r", "p">>, "StepgenRotationError">>,
     <<<<"e", "a", "p">>, "StepgenAgitationError">>}

\* C25: telemetry decoding is total over the 3-byte sequences: each of the
\* sixteen codes decodes to the event of the table, the sixteen events are
\* pairwise distinct and none is Invalid, and every other sequence decodes
\* to Invalid.
C25_TelemetryDecoding ==
    codec.op = "StepperState::from" =>
        LET bytes == codec.input
            state == codec.output
        IN  /\ state \in StepperState
            /\ \A e \in TelemetryTable : e[1] = bytes => state = e[2]
            /\ (\A e \in TelemetryTable : e[1] # bytes) => state = "Invalid"
            /\ \A e \in TelemetryTable :
                   /\ e[1] # bytes => (StepperStateFrom(e[1]) # state \/ state = "Invalid")
                   /\ StepperStateFrom(e[1]) # "Invalid"
            /\ Cardinality({e[1] : e \in TelemetryTable}) = 16
            /\ Cardinality({e[2] : e \in TelemetryTable}) = 16

\* C25 witness: the code of a fault and a sequence that differs from a code
\* in one byte are decoded.
C25_Witness ==
    /\ codec.op = "StepperState::from"
    /\ \/ codec.input = <<"e", "r", "3">> /\ codec.output = "OverHeat"
       \/ codec.input = <<"e", "r", "x">> /\ codec.output = "Invalid"

\* C26: for every step resolution r of 1, 2, 4, 8, 16, 32, 64 and 128, the
\* maximum rpm of an axis is the integer quotient of MAX_RPM = 5000 by r,
\* and the maximum does not increase as r increases.
C26_MaxRpm ==
    codec.op = "max_rpm" =>
        LET r == get_multiplier(codec.input.step_mode) IN
        /\ MAX_RPM = 5000
        /\ r \in {1, 2, 4, 8, 16, 32, 64, 128}
        /\ codec.output = MAX_RPM \div r
        /\ \A other \in AxisInputs :
               get_multiplier(other.step_mode) >= r => max_rpm(other) <= codec.output

\* C26 witness: the maximum of the finest step resolution is computed.
C26_Witness ==
    /\ codec.op = "max_rpm"
    /\ codec.input.step_mode = "M128"
    /\ codec.output = 39

(***************************************************************************)
(* Properties of the protocols sent to the device.                         *)
(***************************************************************************)
AxisInRange(r) ==
    /\ r.rpm <= MAX_RPM \div get_multiplier(r.step_mode)
    /\ 1 <= r.acceleration
    /\ r.acceleration <= MAX_ACCELERATION

\* C27: every protocol that start encodes and hands to the writer has, on
\* both axes, rpm at most MAX_RPM / step_resolution and an acceleration of
\* 1 to MAX_ACCELERATION, after any sequence of edits (step mode changes
\* included) and of accepted or rejected imports from the default protocol.
C27_SentInRange ==
    \A t \in TabIds : \A i \in 1 .. Len(pending[t]) :
        pending[t][i].cmd = "protocol" =>
            /\ AxisInRange(pending[t][i].protocol.rotation)
            /\ AxisInRange(pending[t][i].protocol.agitation)

\* C27 witness: a protocol is sent whose rotation was set by two edits to
\* the finest step mode with the maximum rpm of that mode, next to an
\* agitation at MAX_RPM.
C27_Witness ==
    /\ Len(pending[1]) > 0
    /\ pending[1][1].cmd = "protocol"
    /\ pending[1][1].protocol.rotation.step_mode = "M128"
    /\ pending[1][1].protocol.rotation.rpm = MAX_RPM \div 128
    /\ pending[1][1].protocol.agitation.rpm = MAX_RPM
    /\ pending[1][1].protocol.rotation.duration_of_one_direction_cycle_ms = 0
    /\ thread_index["rotation"] = 2

(***************************************************************************)
(* Properties of a failed connection.                                      *)
(***************************************************************************)
\* The connection thread of tab t ends without a motor: from the open or
\* from a step of the handshake.
ConnectionFails(t) ==
    /\ conn[t].pc \in {"open", "write_bye", "clear", "write_hi", "read"}
    /\ conn'[t].pc = "idle"

\* C28: when opening the port or the handshake fails, no session is created
\* for the attempt: the motor of the tab stays the disconnected one it was,
\* the port name is not added to already_connected_ports, exactly one error
\* message is sent, and promise_serial_connect of the tab is None again.
C28_FailedConnect ==
    [][\A t \in TabIds :
        ConnectionFails(t) =>
            /\ ~serial[t].port
            /\ motor_vars' = motor_vars
            /\ motor_keys' = motor_keys
            /\ already_connected_ports' = already_connected_ports
            /\ Len(message_tx') = 1
            /\ message_tx'[1].kind = "Error"
            /\ message_tx'[1].origin = MotorName(t)
            /\ message_tx'[1].error # NoError
            /\ promise_serial_connect'[t] = "None"]_vars

\* C28 witness: the handshake of the first tab has failed after its retries
\* and the tab can connect again.
C28_Witness ==
    /\ conn[1].pc = "idle"
    /\ Len(message_tx) = 1
    /\ message_tx[1].error = RetriesError
    /\ promise_serial_connect[1] = "None"
    /\ ~serial[1].port
    /\ already_connected_ports = <<>>
    /\ ENABLED ClickConnect(1)

\* C29: during the handshake, after every mismatching 3-byte reply the
\* receive buffer of the port is empty before the next read_exact.
C29_MismatchDiscards ==
    [][\A t \in TabIds :
        (/\ conn[t].pc = "read"
         /\ conn'[t].pc = "read"
         /\ conn'[t].counter = conn[t].counter + 1)
            => rx'[conn[t].port] = <<>>]_vars

(***************************************************************************)
(* Properties of the listener after an Invalid code.                       *)
(***************************************************************************)
ListenerLive(t) == listeners[t] > 0

CodeReady(t) == Len(rx[serial[t].port_name]) >= 3

C32_ReadsWholeCodes ==
    [][\A i \in 1 .. MaxListeners :
          (/\ serial[1].port
           /\ ListenerPoll(1, i)
           /\ listener_threads'[1][i].pc = "read")
             => Len(rx[serial[1].port_name]) >= 3]_vars

\* The listener thread `i` of the first tab is between two statements of
\* the arm of a decoded state.
InArm(i) ==
    /\ i \in 1 .. listeners[1]
    /\ listener_threads[1][i].pc = "arm"

\* C33: once STOP MOTOR has returned, its command is the last one written
\* to the device and the listeners have ended, both
\* phases are idle, both phase timers are unset and is_running is false,
\* also when the stop ran while a listener was dispatching a code.
C33_StopWins ==
    (/\ serial[1].port
     /\ wire[serial[1].port_name] = "stop"
     /\ pending[1] = <<>>
     /\ ~is_running[1]
     /\ listeners[1] = 0)
        => /\ timers_and_phases[1].phase = StepperStateDefault
           /\ timers_and_phases[1].global_phase = StepperStateDefault
           /\ timers_and_phases[1].phase_start_time = None
           /\ timers_and_phases[1].global_phase_start_time = None

\* C34: no listener thread panics: none calls the port of a Serial whose
\* handle has been taken.
C34_NoPanic ==
    last_op.op # "panic"

\* C37: between two statements of the arm of a finish or a fault, once the
\* phase has been written it holds the decoded state only when the main phase and its
\* timer hold the values of the arm too.
C37_AtomicPhases ==
    \A i \in 1 .. MaxListeners :
        (/\ InArm(i)
         /\ listeners[1] = 1
         /\ IsStop(listener_threads[1][i].state)
         /\ listener_threads[1][i].k > 2
         /\ timers_and_phases[1].phase = listener_threads[1][i].state)
            => /\ timers_and_phases[1].global_phase = listener_threads[1][i].state
               /\ timers_and_phases[1].global_phase_start_time = None

(***************************************************************************)
(* Properties of the order of the writes to the port.                      *)
(***************************************************************************)
\* C35: a stop command that send_bytes has accepted and that is not yet
\* written still has its port: the handle is not released, and "bye!" not
\* written, before the stop command is.
C35_StopBeforeBye ==
    (\E i \in 1 .. Len(pending[1]) : pending[1][i] = StopCommand)
        => /\ serial[1].port
           /\ wire[serial[1].port_name] # "bye!"

(***************************************************************************)
(* Properties of a tab closed while it connects.                           *)
(***************************************************************************)
\* C36: while some tab is shown, a tab that is not shown has no motor and
\* no connection promise in the registry, and every port of the connected
\* list, and every port held open by a motor, belongs to a tab that is shown.
C36_ClosedTabLeavesNothing ==
    added_tabs # {} =>
    /\ \A t \in TabIds \ added_tabs :
            /\ t \notin motor_keys
            /\ promise_serial_connect[t] = "absent"
    /\ \A t \in motor_keys : serial[t].port => t \in added_tabs
    /\ (\A t \in TabIds : conn[t] = ConnIdle) =>
            \A p \in Range(already_connected_ports) :
                \E t \in added_tabs : serial[t].port /\ serial[t].port_name = p

(***************************************************************************)
(* Properties of the emergency stop.                                       *)
(***************************************************************************)
\* The step was the emergency stop: its warning is the first message sent.
EmergencyStopped ==
    /\ message_tx' # <<>>
    /\ message_tx'[1].message = "Emergency stop"

\* C38: when the emergency stop has run, every motor of the map has
\* is_running false and no port handle, whatever it had before, and "bye!"
\* is the last write to the device of every motor that had a handle.
C38_EmergencyStopAll ==
    [][EmergencyStopped =>
          \A t \in motor_keys' :
              /\ ~is_running'[t]
              /\ ~serial'[t].port
              /\ serial'[t] = SerialDefault
              /\ (t \in motor_keys /\ serial[t].port) =>
                     wire'[serial[t].port_name] = "bye!"]_vars

\* C38 witness: the emergency stop has disconnected two motors, the first
\* of which was running, and no motor runs or holds a port.
C38_Witness ==
    /\ message_tx # <<>>
    /\ message_tx[1].message = "Emergency stop"
    /\ Len(message_tx) = 5
    /\ wire = [p \in Ports |-> "bye!"]
    /\ listeners[1] = 1
    /\ timers_and_phases[1].start_time # None
    /\ \A t \in motor_keys : ~is_running[t] /\ serial[t] = SerialDefault

(***************************************************************************)
(* Properties of the import into all motors.                               *)
(***************************************************************************)
\* C39: no step, and so no import started from any tab, changes the stored
\* protocol of a motor whose is_running is true.
C39_ImportSparesRunning ==
    [][\A u \in TabIds : is_running[u] => protocol'[u] = protocol[u]]_vars

(***************************************************************************)
(* Properties of the messages on the event channel.                        *)
(***************************************************************************)
\* C40: every message of kind Error that a step sends on the event channel
\* carries an error detail.
C40_ErrorsCarryDetail ==
    \A i \in 1 .. Len(message_tx) :
        message_tx[i].kind = "Error" => message_tx[i].error # NoError

\* C40 witness: the listener has sent the Error message of a fault, with
\* its detail.
C40_Witness ==
    /\ Dispatched(1, {"OpenLoad"})
    /\ message_tx = <<Message("Error", StepperStateToString("OpenLoad"), "Received",
                              MotorName(1))>>

=============================================================================
